---- MODULE Spec2Model ----
(***************************************************************************)
(* AgriNode-Simulator: the node state simulator (AgriNodeSimulator), the   *)
(* LoRa transmission scheduler and binary codec (AgriNodeLoRaTx) and the   *)
(* firmware's setup()/loop() that drive them.                              *)
(*                                                                         *)
(* Floats are fixed-point integers in hundredths (25.3 is 2530).  Times    *)
(* are values of millis(), a 32-bit unsigned millisecond counter, held in  *)
(* units of MsPerUnit ms so that its wrap at 2^32 ms fits within TLC's    *)
(* integers; every sample of millis() is a multiple of MsPerUnit.          *)
(***************************************************************************)
EXTENDS Integers, Sequences, FiniteSets, TLC

\* ------------------------------------------------------------------------
\* Program constants (AgriNode_Config.h)
\* ------------------------------------------------------------------------
NUM_SIMULATED_NODES == 5
NODE_UPDATE_INTERVAL_MS == 30000
TX_INTERVAL_BASE_MS == 60000
TX_JITTER_MS == 5000
LORA_MIN_TX_INTERVAL_MS == 14000
TEAM_ID == 666
MAGIC_BYTE_1 == 171
MAGIC_BYTE_2 == 205
ENABLE_NODE_TIMESTAMP == TRUE
PAYLOAD_HEADER_SIZE == 4
\* #if ENABLE_NODE_TIMESTAMP ... #else ... #endif
PAYLOAD_NODE_SIZE(enabled) == IF enabled THEN 12 ELSE 8
RSSI_THRESHOLD == -90

IRRIGATION_OFF == 0
IRRIGATION_ON == 1
IRRIGATION_AUTO == 2
IRRIGATION_ERROR == 3

\* struct SensorRanges, in hundredths
SensorRanges ==
    [ soilMoisture_min |-> 1500, soilMoisture_max |-> 8500,
      soilMoisture_critical |-> 2500,
      temperature_min |-> 1000, temperature_max |-> 4500,
      temperature_avg |-> 2500,
      humidity_min |-> 3000, humidity_max |-> 9000, humidity_avg |-> 6500 ]

_ranges == SensorRanges

\* _initializeNodes: the per-index tables (1-based sequences, index i+1)
crops == <<0, 1, 2, 3, 4>>
baseTemps == <<2400, 2600, 2200, 2800, 2500>>
baseMoistures == <<4500, 5500, 6500, 4000, 5000>>

\* ------------------------------------------------------------------------
\* Bounds of the model (not program constants)
\* ------------------------------------------------------------------------
\* millis() when setup() reaches simulator.begin()
BootTime == 2888
\* the model stops advancing the clock beyond this uptime
MaxTime == 124000
\* the same for the long runs of the simulator
MaxTimeSim == 545000

\* the radio fails at most MaxFailed sends and reports the channel busy at
\* most MaxBusy times
MaxFailed == 1
MaxBusy == 1
\* resolution of the clock, in milliseconds
MsPerUnit == 4
\* Unix time, in seconds, at which millis() was 0
BootEpoch == 1762300000
\* the run after weeks of uptime starts LateLead ms before millis() wraps
\* and covers MaxTimeLate ms
LateLead == 70000
MaxTimeLate == 140000
\* DS18B20_READ_INTERVAL_MS: the header that defines it is not part of the
\* sources, the value is the model's choice
DS18B20_READ_INTERVAL_MS == 10000
\* the uptime the run with the sensor covers
MaxTimeSensor == 75000
\* uptime covered by the run that starts at noon, in ms
MaxTimeNoon == 330000
\* successful sends of every node before noon
NoonSent == 700
\* uptime covered by the run of the slowest drying and wetting, in ms
MaxTimeDry == 1500000

Nodes == 0 .. (NUM_SIMULATED_NODES - 1)
U16 == 65536
\* 2^32 ms, the wrap of millis(), in clock units
Wrap == (1073741824 \div MsPerUnit) * 4

\* a duration in milliseconds as clock units
Ms(x) == x \div MsPerUnit

\* unsigned long subtraction a - b
Sub32(a, b) == (a - b + Wrap) % Wrap

\* uint32_t increment (2^32 - 1 is beyond TLC's integers, so the
\* wrap of a packet counter is out of reach)
Inc32(x) == x + 1

\* a / b rounded to the nearest integer (b > 0): the fixed-point image of a
\* float product or quotient
Rnd(a, b) == (2 * a + b) \div (2 * b)

\* C cast of a / b to an integer type: truncation toward zero
TruncDiv(a, b) == IF a >= 0 THEN a \div b ELSE -((-a) \div b)

\* ------------------------------------------------------------------------
\* State
\* ------------------------------------------------------------------------
VARIABLES
    clock,              \* millis() at the start of the loop() iteration
    pc,                 \* position of the firmware: setup steps, loop steps
    nodes,              \* AgriNodeSimulator::_nodes
    _lastGlobalUpdate,  \* AgriNodeSimulator::_lastGlobalUpdate
    _initialized,       \* AgriNodeLoRaTx::_initialized
    _packetsSent,       \* AgriNodeLoRaTx::_packetsSent
    _packetsFailed,     \* AgriNodeLoRaTx::_packetsFailed
    txI,                \* loop index i of AgriNodeLoRaTx::update
    currentTime,        \* local currentTime of AgriNodeLoRaTx::update
    air,                \* what the radio saw in the latest loop iteration
    failedAt,           \* per node: time of its latest send if it failed
    busyCount,          \* number of channel-busy skips so far
    faulted,            \* nodes that drew the fault in the latest update
    timestampEnabled,   \* ENABLE_NODE_TIMESTAMP of the build that runs
    ntpSynced,          \* setupNetwork() left the wall clock synchronized
    txElapsed,          \* time spent so far in the running update() call
    lastSendAt,         \* millis() at the latest LoRa.endPacket(), -1: none
    endPackets,         \* LoRa.endPacket() calls update() has issued so far
    lastSensorRead,     \* lastSensorRead of main.cpp
    sheets              \* the latest DS18B20 reading and what became of it

vars == << clock, pc, nodes, _lastGlobalUpdate, _initialized, _packetsSent,
           _packetsFailed, txI, currentTime, air, failedAt, busyCount,
           faulted, timestampEnabled, ntpSynced, txElapsed, lastSendAt,
           endPackets, lastSensorRead, sheets >>

\* what is settled before setup() reaches simulator.begin()
settled == << timestampEnabled, ntpSynced >>

\* what only the loop of AgriNodeLoRaTx::update moves
onAir == << txElapsed, lastSendAt, endPackets >>

\* what only the sensor reading of loop() moves
thermometer == << lastSensorRead, sheets >>

\* ------------------------------------------------------------------------
\* AgriNodeSimulator: pure helpers
\* ------------------------------------------------------------------------
\* _constrain with the upper clamp forgotten
_constrain_noUpper(value, min, max) ==
    IF value < min THEN min ELSE value

_constrain(value, min, max) ==
    IF value < min THEN min
    ELSE IF value > max THEN max
    ELSE value

\* r is the draw of random(-100, 100), in -100..99
_addNoise(value, noisePercent, r) ==
    value + Rnd(r * value * noisePercent, 10000)

\* 8.0 * sin((hourOfDay - 6.0) * PI / 12.0) in hundredths, tabulated at the
\* whole hour of hourOfDay (index hour + 1)
TempVariationTable ==
    << -800, -773, -693, -566, -400, -207, 0, 207, 400, 566, 693, 773,
       800, 773, 693, 566, 400, 207, 0, -207, -400, -566, -693, -773 >>

tempVariation(now) ==
    LET timeOfDay == now % Ms(24 * 3600 * 1000)
        hour == timeOfDay \div Ms(3600 * 1000)
    IN  TempVariationTable[hour + 1]

\* _initializeNodes that zeroes lastUpdateTime as well
InitialNode_zeroUpdateTime(i, d, now) ==
    [ nodeId |-> 1000 + i,
      cropType |-> crops[i + 1],
      soilMoisture |-> _constrain(_addNoise(baseMoistures[i + 1], 10, d.m),
                                  _ranges.soilMoisture_min,
                                  _ranges.soilMoisture_max),
      ambientTemp |-> _constrain(_addNoise(baseTemps[i + 1], 5, d.t),
                                 _ranges.temperature_min,
                                 _ranges.temperature_max),
      humidity |-> _constrain(_addNoise(_ranges.humidity_avg, 15, d.h),
                              _ranges.humidity_min,
                              _ranges.humidity_max),
      irrigationStatus |-> IRRIGATION_OFF,
      sequenceNumber |-> 0,
      lastUpdateTime |-> 0,
      lastTxTime |-> 0,
      needsIrrigation |-> FALSE,
      txCount |-> 0,
      lastRssi |-> 0,
      dataTimestamp |-> 0 ]

\* Loop body of _initializeNodes for index i; d holds the three draws of
\* random(-100, 100) made by _addNoise, now is millis()
InitialNode(i, d, now) ==
    [ nodeId |-> 1000 + i,
      cropType |-> crops[i + 1],
      soilMoisture |-> _constrain(_addNoise(baseMoistures[i + 1], 10, d.m),
                                  _ranges.soilMoisture_min,
                                  _ranges.soilMoisture_max),
      ambientTemp |-> _constrain(_addNoise(baseTemps[i + 1], 5, d.t),
                                 _ranges.temperature_min,
                                 _ranges.temperature_max),
      humidity |-> _constrain(_addNoise(_ranges.humidity_avg, 15, d.h),
                              _ranges.humidity_min,
                              _ranges.humidity_max),
      irrigationStatus |-> IRRIGATION_OFF,
      sequenceNumber |-> 0,
      lastUpdateTime |-> now,
      lastTxTime |-> 0,
      needsIrrigation |-> FALSE,
      txCount |-> 0,
      lastRssi |-> 0,
      dataTimestamp |-> 0 ]

\* _updateNodeSensors that switches off at soilMoisture_max instead of 70
_updateNodeSensors_offAtMax(node, d, now) ==
    LET tv == tempVariation(now)
        targetTemp == _ranges.temperature_avg + tv
        temp == _constrain(
                    _addNoise(Rnd(9 * node.ambientTemp + targetTemp, 10),
                              2, d.nT),
                    _ranges.temperature_min, _ranges.temperature_max)
        targetHumidity == _ranges.humidity_avg - 2 * tv
        hum == _constrain(
                   _addNoise(Rnd(85 * node.humidity + 15 * targetHumidity,
                                 100), 3, d.nH),
                   _ranges.humidity_min, _ranges.humidity_max)
        wet == _constrain(node.soilMoisture + d.irr * 10, 0,
                          _ranges.soilMoisture_max)
        evaporation == IF temp > 3000 THEN d.evap * 15 ELSE d.evap * 10
        dry == _constrain(node.soilMoisture - evaporation,
                          _ranges.soilMoisture_min,
                          _ranges.soilMoisture_max)
    IN  IF node.irrigationStatus = IRRIGATION_ON
        THEN [node EXCEPT !.ambientTemp = temp, !.humidity = hum,
                          !.soilMoisture = wet,
                          !.irrigationStatus =
                              IF wet >= _ranges.soilMoisture_max
                              THEN IRRIGATION_OFF
                              ELSE IRRIGATION_ON]
        ELSE [node EXCEPT !.ambientTemp = temp, !.humidity = hum,
                          !.soilMoisture = dry]

\* _updateNodeSensors that doubles the evaporation above 30 degrees
_updateNodeSensors_hotDouble(node, d, now) ==
    LET tv == tempVariation(now)
        targetTemp == _ranges.temperature_avg + tv
        temp == _constrain(
                    _addNoise(Rnd(9 * node.ambientTemp + targetTemp, 10),
                              2, d.nT),
                    _ranges.temperature_min, _ranges.temperature_max)
        targetHumidity == _ranges.humidity_avg - 2 * tv
        hum == _constrain(
                   _addNoise(Rnd(85 * node.humidity + 15 * targetHumidity,
                                 100), 3, d.nH),
                   _ranges.humidity_min, _ranges.humidity_max)
        wet == _constrain(node.soilMoisture + d.irr * 10, 0,
                          _ranges.soilMoisture_max)
        evaporation == IF temp > 3000 THEN d.evap * 20 ELSE d.evap * 10
        dry == _constrain(node.soilMoisture - evaporation,
                          _ranges.soilMoisture_min,
                          _ranges.soilMoisture_max)
    IN  IF node.irrigationStatus = IRRIGATION_ON
        THEN [node EXCEPT !.ambientTemp = temp, !.humidity = hum,
                          !.soilMoisture = wet,
                          !.irrigationStatus =
                              IF wet >= 7000 THEN IRRIGATION_OFF
                              ELSE IRRIGATION_ON]
        ELSE [node EXCEPT !.ambientTemp = temp, !.humidity = hum,
                          !.soilMoisture = dry]

\* _updateNodeSensors that leaves the humidity as the noise made it
_updateNodeSensors_rawHumidity(node, d, now) ==
    LET tv == tempVariation(now)
        targetTemp == _ranges.temperature_avg + tv
        temp == _constrain(
                    _addNoise(Rnd(9 * node.ambientTemp + targetTemp, 10),
                              2, d.nT),
                    _ranges.temperature_min, _ranges.temperature_max)
        targetHumidity == _ranges.humidity_avg - 2 * tv
        hum == _addNoise(Rnd(85 * node.humidity + 15 * targetHumidity,
                             100), 3, d.nH)
        wet == _constrain(node.soilMoisture + d.irr * 10, 0,
                          _ranges.soilMoisture_max)
        evaporation == IF temp > 3000 THEN d.evap * 15 ELSE d.evap * 10
        dry == _constrain(node.soilMoisture - evaporation,
                          _ranges.soilMoisture_min,
                          _ranges.soilMoisture_max)
    IN  IF node.irrigationStatus = IRRIGATION_ON
        THEN [node EXCEPT !.ambientTemp = temp, !.humidity = hum,
                          !.soilMoisture = wet,
                          !.irrigationStatus =
                              IF wet >= 7000 THEN IRRIGATION_OFF
                              ELSE IRRIGATION_ON]
        ELSE [node EXCEPT !.ambientTemp = temp, !.humidity = hum,
                          !.soilMoisture = dry]

\* _updateNodeSensors without the gain of moisture of an irrigated node
_updateNodeSensors_noGain(node, d, now) ==
    LET tv == tempVariation(now)
        targetTemp == _ranges.temperature_avg + tv
        temp == _constrain(
                    _addNoise(Rnd(9 * node.ambientTemp + targetTemp, 10),
                              2, d.nT),
                    _ranges.temperature_min, _ranges.temperature_max)
        targetHumidity == _ranges.humidity_avg - 2 * tv
        hum == _constrain(
                   _addNoise(Rnd(85 * node.humidity + 15 * targetHumidity,
                                 100), 3, d.nH),
                   _ranges.humidity_min, _ranges.humidity_max)
        wet == _constrain(node.soilMoisture, 0,
                          _ranges.soilMoisture_max)
        evaporation == IF temp > 3000 THEN d.evap * 15 ELSE d.evap * 10
        dry == _constrain(node.soilMoisture - evaporation,
                          _ranges.soilMoisture_min,
                          _ranges.soilMoisture_max)
    IN  IF node.irrigationStatus = IRRIGATION_ON
        THEN [node EXCEPT !.ambientTemp = temp, !.humidity = hum,
                          !.soilMoisture = wet,
                          !.irrigationStatus =
                              IF wet >= 7000 THEN IRRIGATION_OFF
                              ELSE IRRIGATION_ON]
        ELSE [node EXCEPT !.ambientTemp = temp, !.humidity = hum,
                          !.soilMoisture = dry]

\* _updateNodeSensors without the loss of moisture of a node not irrigated
_updateNodeSensors_noEvaporation(node, d, now) ==
    LET tv == tempVariation(now)
        targetTemp == _ranges.temperature_avg + tv
        temp == _constrain(
                    _addNoise(Rnd(9 * node.ambientTemp + targetTemp, 10),
                              2, d.nT),
                    _ranges.temperature_min, _ranges.temperature_max)
        targetHumidity == _ranges.humidity_avg - 2 * tv
        hum == _constrain(
                   _addNoise(Rnd(85 * node.humidity + 15 * targetHumidity,
                                 100), 3, d.nH),
                   _ranges.humidity_min, _ranges.humidity_max)
        wet == _constrain(node.soilMoisture + d.irr * 10, 0,
                          _ranges.soilMoisture_max)
        evaporation == IF temp > 3000 THEN d.evap * 15 ELSE d.evap * 10
        dry == _constrain(node.soilMoisture,
                          _ranges.soilMoisture_min,
                          _ranges.soilMoisture_max)
    IN  IF node.irrigationStatus = IRRIGATION_ON
        THEN [node EXCEPT !.ambientTemp = temp, !.humidity = hum,
                          !.soilMoisture = wet,
                          !.irrigationStatus =
                              IF wet >= 7000 THEN IRRIGATION_OFF
                              ELSE IRRIGATION_ON]
        ELSE [node EXCEPT !.ambientTemp = temp, !.humidity = hum,
                          !.soilMoisture = dry]

\* _updateNodeSensors that never switches the irrigation off
_updateNodeSensors_staysOn(node, d, now) ==
    LET tv == tempVariation(now)
        targetTemp == _ranges.temperature_avg + tv
        temp == _constrain(
                    _addNoise(Rnd(9 * node.ambientTemp + targetTemp, 10),
                              2, d.nT),
                    _ranges.temperature_min, _ranges.temperature_max)
        targetHumidity == _ranges.humidity_avg - 2 * tv
        hum == _constrain(
                   _addNoise(Rnd(85 * node.humidity + 15 * targetHumidity,
                                 100), 3, d.nH),
                   _ranges.humidity_min, _ranges.humidity_max)
        wet == _constrain(node.soilMoisture + d.irr * 10, 0,
                          _ranges.soilMoisture_max)
        evaporation == IF temp > 3000 THEN d.evap * 15 ELSE d.evap * 10
        dry == _constrain(node.soilMoisture - evaporation,
                          _ranges.soilMoisture_min,
                          _ranges.soilMoisture_max)
    IN  IF node.irrigationStatus = IRRIGATION_ON
        THEN [node EXCEPT !.ambientTemp = temp, !.humidity = hum,
                          !.soilMoisture = wet,
                          !.irrigationStatus = IRRIGATION_ON]
        ELSE [node EXCEPT !.ambientTemp = temp, !.humidity = hum,
                          !.soilMoisture = dry]

\* d: nT, nH draws of random(-100,100); irr draw of random(30,50);
\* evap draw of random(5,15)
_updateNodeSensors(node, d, now) ==
    LET tv == tempVariation(now)
        targetTemp == _ranges.temperature_avg + tv
        temp == _constrain(
                    _addNoise(Rnd(9 * node.ambientTemp + targetTemp, 10),
                              2, d.nT),
                    _ranges.temperature_min, _ranges.temperature_max)
        targetHumidity == _ranges.humidity_avg - 2 * tv
        hum == _constrain(
                   _addNoise(Rnd(85 * node.humidity + 15 * targetHumidity,
                                 100), 3, d.nH),
                   _ranges.humidity_min, _ranges.humidity_max)
        wet == _constrain(node.soilMoisture + d.irr * 10, 0,
                          _ranges.soilMoisture_max)
        evaporation == IF temp > 3000 THEN d.evap * 15 ELSE d.evap * 10
        dry == _constrain(node.soilMoisture - evaporation,
                          _ranges.soilMoisture_min,
                          _ranges.soilMoisture_max)
    IN  IF node.irrigationStatus = IRRIGATION_ON
        THEN [node EXCEPT !.ambientTemp = temp, !.humidity = hum,
                          !.soilMoisture = wet,
                          !.irrigationStatus =
                              IF wet >= 7000 THEN IRRIGATION_OFF
                              ELSE IRRIGATION_ON]
        ELSE [node EXCEPT !.ambientTemp = temp, !.humidity = hum,
                          !.soilMoisture = dry]

\* _checkIrrigationNeeds that switches the irrigation on but forgets the flag
_checkIrrigationNeeds_noFlag(node, d) ==
    LET n1 == IF node.soilMoisture < _ranges.soilMoisture_critical
              THEN IF node.irrigationStatus = IRRIGATION_OFF
                   THEN [node EXCEPT !.irrigationStatus = IRRIGATION_ON]
                   ELSE node
              ELSE [node EXCEPT !.needsIrrigation = FALSE]
    IN  IF d.fault = 0
        THEN [n1 EXCEPT !.irrigationStatus = IRRIGATION_ERROR]
        ELSE n1

\* _checkIrrigationNeeds that switches on every node that is not irrigating
_checkIrrigationNeeds_notOn(node, d) ==
    LET n1 == IF node.soilMoisture < _ranges.soilMoisture_critical
              THEN IF node.irrigationStatus # IRRIGATION_ON
                   THEN [node EXCEPT !.irrigationStatus = IRRIGATION_ON,
                                     !.needsIrrigation = TRUE]
                   ELSE node
              ELSE [node EXCEPT !.needsIrrigation = FALSE]
    IN  IF d.fault = 0
        THEN [n1 EXCEPT !.irrigationStatus = IRRIGATION_ERROR]
        ELSE n1

\* _checkIrrigationNeeds that clears the flag only while the irrigation is off
_checkIrrigationNeeds_clearWhenOff(node, d) ==
    LET n1 == IF node.soilMoisture < _ranges.soilMoisture_critical
              THEN IF node.irrigationStatus = IRRIGATION_OFF
                   THEN [node EXCEPT !.irrigationStatus = IRRIGATION_ON,
                                     !.needsIrrigation = TRUE]
                   ELSE node
              ELSE IF node.irrigationStatus = IRRIGATION_OFF
                   THEN [node EXCEPT !.needsIrrigation = FALSE]
                   ELSE node
    IN  IF d.fault = 0
        THEN [n1 EXCEPT !.irrigationStatus = IRRIGATION_ERROR]
        ELSE n1

\* _checkIrrigationNeeds that hands a dry node to IRRIGATION_AUTO
_checkIrrigationNeeds_toAuto(node, d) ==
    LET n1 == IF node.soilMoisture < _ranges.soilMoisture_critical
              THEN IF node.irrigationStatus = IRRIGATION_OFF
                   THEN [node EXCEPT !.irrigationStatus = IRRIGATION_AUTO,
                                     !.needsIrrigation = TRUE]
                   ELSE node
              ELSE [node EXCEPT !.needsIrrigation = FALSE]
    IN  IF d.fault = 0
        THEN [n1 EXCEPT !.irrigationStatus = IRRIGATION_ERROR]
        ELSE n1

\* _checkIrrigationNeeds that never clears the flag
_checkIrrigationNeeds_keepsFlag(node, d) ==
    LET n1 == IF node.soilMoisture < _ranges.soilMoisture_critical
              THEN IF node.irrigationStatus = IRRIGATION_OFF
                   THEN [node EXCEPT !.irrigationStatus = IRRIGATION_ON,
                                     !.needsIrrigation = TRUE]
                   ELSE node
              ELSE node
    IN  IF d.fault = 0
        THEN [n1 EXCEPT !.irrigationStatus = IRRIGATION_ERROR]
        ELSE n1

\* d.fault is the draw of random(0, 1000)
_checkIrrigationNeeds(node, d) ==
    LET n1 == IF node.soilMoisture < _ranges.soilMoisture_critical
              THEN IF node.irrigationStatus = IRRIGATION_OFF
                   THEN [node EXCEPT !.irrigationStatus = IRRIGATION_ON,
                                     !.needsIrrigation = TRUE]
                   ELSE node
              ELSE [node EXCEPT !.needsIrrigation = FALSE]
    IN  IF d.fault = 0
        THEN [n1 EXCEPT !.irrigationStatus = IRRIGATION_ERROR]
        ELSE n1

\* ------------------------------------------------------------------------
\* AgriNodeLoRaTx: pure helpers
\* ------------------------------------------------------------------------
\* txInterval with the division of the jitter by the node count forgotten
txInterval_noDivision(i) ==
    LET t == TX_INTERVAL_BASE_MS + i * TX_JITTER_MS
    IN  IF t < LORA_MIN_TX_INTERVAL_MS THEN LORA_MIN_TX_INTERVAL_MS ELSE t

\* uint32_t txInterval of update() for loop index i
txInterval(i) ==
    LET t == TX_INTERVAL_BASE_MS + i * (TX_JITTER_MS \div NUM_SIMULATED_NODES)
    IN  IF t < LORA_MIN_TX_INTERVAL_MS THEN LORA_MIN_TX_INTERVAL_MS ELSE t

\* the due test in signed arithmetic, without the wrap of the subtraction
IsDue_noWrap(node, i, now) ==
    now - node.lastTxTime >= Ms(txInterval(i))

\* the due test with > for >=
IsDue_strict(node, i, now) ==
    Sub32(now, node.lastTxTime) > Ms(txInterval(i))

\* the due test of update()
IsDue(node, i, now) == Sub32(now, node.lastTxTime) >= Ms(txInterval(i))

\* a channel check that takes all three samples whatever it reads
ChannelReads_allThree(s) == <<s[1], s[2], s[3]>>

\* _isChannelFree: s is what LoRa.rssi() would return on calls 1, 2, 3;
\* the result is the samples actually read, in order
ChannelReads(s) ==
    IF s[1] > RSSI_THRESHOLD THEN <<s[1]>>
    ELSE IF s[2] > RSSI_THRESHOLD THEN <<s[1], s[2]>>
    ELSE <<s[1], s[2], s[3]>>

\* _isChannelFree that looks at the first sample only
_isChannelFree_firstOnly(s) == s[1] <= RSSI_THRESHOLD

_isChannelFree(s) == \A k \in 1..Len(ChannelReads(s)) :
                        ChannelReads(s)[k] <= RSSI_THRESHOLD

\* the high byte taken without the shift
Hi8_noShift(x) == x % 256

\* (x >> 8) & 0xFF and x & 0xFF of a 16-bit value (two's complement)
Hi8(x) == ((x % U16) \div 256) % 256
Lo8(x) == x % 256

\* the percent byte rounded to the nearest integer instead of truncated
PercentByte_round(v) == Rnd(_constrain(v, 0, 10000), 100) % 256

\* (uint8_t)constrain(v, 0.0, 100.0)
PercentByte(v) == TruncDiv(_constrain(v, 0, 10000), 100) % 256

\* the largest power of two that is at most lim (lim >= 1)
Pow2Below(lim) ==
    IF lim >= 1073741824 THEN 1073741824
    ELSE IF lim >= 536870912 THEN 536870912
    ELSE IF lim >= 268435456 THEN 268435456
    ELSE IF lim >= 134217728 THEN 134217728
    ELSE IF lim >= 67108864 THEN 67108864
    ELSE IF lim >= 33554432 THEN 33554432
    ELSE IF lim >= 16777216 THEN 16777216
    ELSE IF lim >= 8388608 THEN 8388608
    ELSE IF lim >= 4194304 THEN 4194304
    ELSE IF lim >= 2097152 THEN 2097152
    ELSE IF lim >= 1048576 THEN 1048576
    ELSE IF lim >= 524288 THEN 524288
    ELSE IF lim >= 262144 THEN 262144
    ELSE IF lim >= 131072 THEN 131072
    ELSE IF lim >= 65536 THEN 65536
    ELSE IF lim >= 32768 THEN 32768
    ELSE IF lim >= 16384 THEN 16384
    ELSE IF lim >= 8192 THEN 8192
    ELSE IF lim >= 4096 THEN 4096
    ELSE IF lim >= 2048 THEN 2048
    ELSE IF lim >= 1024 THEN 1024
    ELSE IF lim >= 512 THEN 512
    ELSE IF lim >= 256 THEN 256
    ELSE IF lim >= 128 THEN 128
    ELSE IF lim >= 64 THEN 64
    ELSE IF lim >= 32 THEN 32
    ELSE IF lim >= 16 THEN 16
    ELSE IF lim >= 8 THEN 8
    ELSE IF lim >= 4 THEN 4
    ELSE IF lim >= 2 THEN 2
    ELSE 1

\* The denominator of the float that holds a / 100 (a > 0): the largest
\* power of two D with a / 100 * D < 2^24 (a 24-bit significand)
F32Scale(a) == Pow2Below(1677721599 \div a)

\* A float field holding the decimal value h / 100: the IEEE-754 single
\* nearest to it (ties to even), as the exact fraction m / D
F32(h) ==
    IF h = 0 THEN [m |-> 0, D |-> 1]
    ELSE LET a == IF h < 0 THEN -h ELSE h
             D == F32Scale(a)
             q == (a * D) \div 100
             r == (a * D) % 100
             mag == IF r > 50 \/ (r = 50 /\ q % 2 = 1) THEN q + 1 ELSE q
         IN  [m |-> IF h < 0 THEN -mag ELSE mag, D |-> D]

\* (int16_t)((ambientTemp + 50.0) * 10.0): the float is widened to double,
\* the sum and the product are exact there, the cast truncates toward zero
tempEncoded(ambientTemp) ==
    LET f == F32(ambientTemp)
        x == 10 * f.m
        fl == 500 + (x \div f.D)
    IN  IF fl >= 0 \/ x % f.D = 0 THEN fl ELSE fl + 1

\* tempEncoded over the range the two temperature bytes can hold, each
\* value computed once
TempCodes == [h \in -5000 .. 16380 |-> tempEncoded(h)]

\* tempEncoded(h), looked up where it is tabulated
tempEncodedAt(h) ==
    IF h >= -5000 /\ h <= 16380 THEN TempCodes[h] ELSE tempEncoded(h)

\* _createBinaryPayload that appends the timestamp in every build
_createBinaryPayload_alwaysTs(node, simRssi) ==
  LET te == tempEncodedAt(node.ambientTemp) IN
    << MAGIC_BYTE_1, MAGIC_BYTE_2, Hi8(TEAM_ID), Lo8(TEAM_ID),
       Hi8(node.nodeId), Lo8(node.nodeId),
       PercentByte(node.soilMoisture),
       Hi8(te), Lo8(te),
       PercentByte(node.humidity),
       node.irrigationStatus % 256,
       (simRssi + 128) % 256,
       (node.dataTimestamp \div 16777216) % 256,
       (node.dataTimestamp \div 65536) % 256,
       (node.dataTimestamp \div 256) % 256,
       node.dataTimestamp % 256 >>

\* _createBinaryPayload that writes the timestamp low byte first
_createBinaryPayload_tsLittleEndian(node, simRssi) ==
  LET te == tempEncodedAt(node.ambientTemp) IN
    << MAGIC_BYTE_1, MAGIC_BYTE_2, Hi8(TEAM_ID), Lo8(TEAM_ID),
       Hi8(node.nodeId), Lo8(node.nodeId),
       PercentByte(node.soilMoisture),
       Hi8(te), Lo8(te),
       PercentByte(node.humidity),
       node.irrigationStatus % 256,
       (simRssi + 128) % 256 >>
    \o (IF timestampEnabled
        THEN << node.dataTimestamp % 256,
                (node.dataTimestamp \div 256) % 256,
                (node.dataTimestamp \div 65536) % 256,
                (node.dataTimestamp \div 16777216) % 256 >>
        ELSE << >>)

\* simRssi is the draw of random(-95, -50)
_createBinaryPayload(node, simRssi) ==
  LET te == tempEncodedAt(node.ambientTemp) IN
    << MAGIC_BYTE_1, MAGIC_BYTE_2, Hi8(TEAM_ID), Lo8(TEAM_ID),
       Hi8(node.nodeId), Lo8(node.nodeId),
       PercentByte(node.soilMoisture),
       Hi8(te), Lo8(te),
       PercentByte(node.humidity),
       node.irrigationStatus % 256,
       (simRssi + 128) % 256 >>
    \o (IF timestampEnabled
        THEN << (node.dataTimestamp \div 16777216) % 256,
                (node.dataTimestamp \div 65536) % 256,
                (node.dataTimestamp \div 256) % 256,
                node.dataTimestamp % 256 >>
        ELSE << >>)

\* ------------------------------------------------------------------------
\* Initial state
\* ------------------------------------------------------------------------
\* a global AgriculturalNode before begin(): static storage, all zero
ZeroNode ==
    [ nodeId |-> 0, cropType |-> 0, soilMoisture |-> 0, ambientTemp |-> 0,
      humidity |-> 0, irrigationStatus |-> 0, sequenceNumber |-> 0,
      lastUpdateTime |-> 0, lastTxTime |-> 0, needsIrrigation |-> FALSE,
      txCount |-> 0, lastRssi |-> 0, dataTimestamp |-> 0 ]

\* air: node is the loop index, at the sampled currentTime, interval the
\* local txInterval, samples the values read from LoRa.rssi(), payload the
\* bytes handed to LoRa.write(), rssi the value read from LoRa.packetRssi()
NoAir == [ node |-> -1, at |-> 0, interval |-> 0, samples |-> << >>,
           payload |-> << >>, rssi |-> 0, result |-> "none" ]

\* sheets: reading is what getTempCByIndex(0) returned at the latest read,
\* in hundredths of a degree, sent whether sendToGoogleSheets issued the
\* request with it
NoReading == [reading |-> 0, sent |-> FALSE]

\* a reading of 21.5 degrees with the network up
CalmRead == [t |-> 2150, online |-> TRUE]

\* the constructors have run, setup() is about to call simulator.begin()
Init ==
    /\ clock = Ms(BootTime)
    /\ pc = "sim_begin"
    /\ nodes = [i \in Nodes |-> ZeroNode]
    /\ _lastGlobalUpdate = 0
    /\ _initialized = FALSE
    /\ _packetsSent = 0
    /\ _packetsFailed = 0
    /\ txI = 0
    /\ currentTime = 0
    /\ air = NoAir
    /\ failedAt = [i \in Nodes |-> -1]
    /\ busyCount = 0
    /\ faulted = {}
    /\ timestampEnabled = ENABLE_NODE_TIMESTAMP
    /\ ntpSynced \in BOOLEAN
    /\ txElapsed = 0
    /\ lastSendAt = -1
    /\ endPackets = 0
    /\ lastSensorRead = 0
    /\ sheets = NoReading

\* ------------------------------------------------------------------------
\* Inputs the environment supplies: random draws, radio answers, elapsed time
\* ------------------------------------------------------------------------
\* the bookkeeping with the sequence number left alone
MarkTransmitted_noSeq(node, now) ==
    [node EXCEPT !.lastTxTime = now,
                 !.txCount = Inc32(node.txCount)]

\* the bookkeeping with a transmit counter of 16 bits
MarkTransmitted_txCount16(node, now) ==
    [node EXCEPT !.lastTxTime = now,
                 !.sequenceNumber = (node.sequenceNumber + 1) % U16,
                 !.txCount = (node.txCount + 1) % U16]

\* the bookkeeping with the node's transmit counter left alone
MarkTransmitted_noCount(node, now) ==
    [node EXCEPT !.lastTxTime = now,
                 !.sequenceNumber = (node.sequenceNumber + 1) % U16]

\* the bookkeeping with a sequence number that stops at its highest value
MarkTransmitted_seqSaturates(node, now) ==
    [node EXCEPT !.lastTxTime = now,
                 !.sequenceNumber = IF node.sequenceNumber + 1 = U16
                                    THEN node.sequenceNumber
                                    ELSE node.sequenceNumber + 1,
                 !.txCount = Inc32(node.txCount)]

\* AgriNodeLoRaTx::update on success: the bookkeeping after _transmitNode
MarkTransmitted(node, now) ==
    [node EXCEPT !.lastTxTime = now,
                 !.sequenceNumber = (node.sequenceNumber + 1) % U16,
                 !.txCount = Inc32(node.txCount)]

\* _transmitNode that captures the RSSI before looking at the result
_transmitNode_rssiAlways(node, payload, success, prssi) ==
    IF payload = << >> THEN node
    ELSE [node EXCEPT !.lastRssi = prssi]

\* _transmitNode that takes the alert as delivered and lowers the flag
_transmitNode_clearsFlag(node, payload, success, prssi) ==
    IF payload # << >> /\ success
    THEN [node EXCEPT !.lastRssi = prssi, !.needsIrrigation = FALSE]
    ELSE node

\* _transmitNode that never captures the RSSI
_transmitNode_noRssi(node, payload, success, prssi) == node

\* _transmitNode: success is the result of LoRa.endPacket(true), prssi the
\* value of LoRa.packetRssi(); the node as _transmitNode leaves it
_transmitNode(node, payload, success, prssi) ==
    IF payload = << >> THEN node
    ELSE IF success THEN [node EXCEPT !.lastRssi = prssi]
    ELSE node

\* the value _transmitNode returns
TransmitResult(payload, success) == payload # << >> /\ success

\* values LoRa.rssi() returns (at and just above the busy threshold)
RssiSamples == {-90, -89}
\* values LoRa.packetRssi() returns
PacketRssiVals == {-157}
\* draws of random(-95, -50) for the simulated RSSI byte
SimRssiVals == {-95, -51}
\* time from one loop() iteration to the next (delay(20) and blocking calls)
TickSteps == {10000, 30000}
\* draws of random(50, 200) in _isChannelFree and of random(100, 500) in
\* update(): the shortest pauses, which bring the sends of one call closest
BackoffDraws == {[cad |-> 50, wait |-> 100]}

\* draws of one _updateNodeSensors + _checkIrrigationNeeds pass
CalmDraw == [nT |-> 0, nH |-> 0, irr |-> 40, evap |-> 10, fault |-> 1]
\* draws of one _initializeNodes pass
CalmBegin == [m |-> 0, t |-> 0, h |-> 0]

\* ------------------------------------------------------------------------
\* Actions
\* ------------------------------------------------------------------------
\* setup(): simulator.begin() with the draws bd (node index -> draws)
SimBeginWith(bd) ==
    /\ pc = "sim_begin"
    /\ UNCHANGED << settled, onAir, thermometer >>
    /\ nodes' = [i \in Nodes |-> InitialNode(i, bd[i], clock)]
    /\ _lastGlobalUpdate' = clock
    /\ pc' = "lora_begin"
    /\ UNCHANGED << clock, _initialized, _packetsSent, _packetsFailed, txI,
                    currentTime, air, failedAt, busyCount, faulted >>

\* a setup() that goes on to the loop whatever loraTx.begin() returns
LoRaBegin_ignoresFailure ==
    /\ pc = "lora_begin"
    /\ UNCHANGED << settled, onAir, thermometer >>
    /\ \E ok \in BOOLEAN : _initialized' = ok
    /\ pc' = "sim"
    /\ clock' = (clock + Ms(10) + Ms(100)) % Wrap
    /\ UNCHANGED << nodes, _lastGlobalUpdate, _packetsSent, _packetsFailed,
                    txI, currentTime, air, failedAt, busyCount, faulted >>

\* setup(): loraTx.begin() -> _initLoRa(); ok is the result of LoRa.begin()
LoRaBegin ==
    /\ pc = "lora_begin"
    /\ UNCHANGED << settled, onAir, thermometer >>
    /\ \E ok \in BOOLEAN :
          /\ _initialized' = ok
          /\ pc' = IF ok THEN "sim" ELSE "halt"
    /\ clock' = (clock + Ms(10) + Ms(100)) % Wrap
    /\ UNCHANGED << nodes, _lastGlobalUpdate, _packetsSent, _packetsFailed,
                    txI, currentTime, air, failedAt, busyCount, faulted >>

\* setup(): the while (true) blink loop after "FATAL: LoRa falhou"
FatalLoop ==
    /\ pc = "halt"
    /\ UNCHANGED << settled, onAir, thermometer >>
    /\ clock + Ms(400) <= Ms(MaxTime)
    /\ clock' = (clock + Ms(400)) % Wrap
    /\ UNCHANGED << pc, nodes, _lastGlobalUpdate, _initialized, _packetsSent,
                    _packetsFailed, txI, currentTime, air, failedAt,
                    busyCount, faulted >>

\* the clock collaborator at uptime now: Unix time in seconds, 0 while the
\* wall clock is not synchronized
nowUnixSeconds(now) ==
    IF ntpSynced THEN BootEpoch + (now \div Ms(1000)) ELSE 0

\* the update's last step for a node: record the collection timestamp
RecordTimestamp(node, unix) == [node EXCEPT !.dataTimestamp = unix]

\* the update test with > for >=
UpdateIsDue_strict(now, last) ==
    Sub32(now, last) > Ms(NODE_UPDATE_INTERVAL_MS)

\* the test of AgriNodeSimulator::update
UpdateIsDue(now, last) == Sub32(now, last) >= Ms(NODE_UPDATE_INTERVAL_MS)

\* loop(): simulator.update() with the draws d (node index -> draws)
SimUpdateWith(d) ==
    /\ pc = "sim"
    /\ UNCHANGED << settled, onAir, thermometer >>
    /\ UpdateIsDue(clock, _lastGlobalUpdate)
    /\ _lastGlobalUpdate' = clock
    /\ nodes' = [i \in Nodes |->
                    RecordTimestamp(
                        [_checkIrrigationNeeds(
                             _updateNodeSensors(nodes[i], d[i], clock), d[i])
                         EXCEPT !.lastUpdateTime = clock],
                        nowUnixSeconds(clock))]
    /\ pc' = "tx"
    /\ UNCHANGED << clock, _initialized, _packetsSent, _packetsFailed, txI,
                    currentTime, air, failedAt, busyCount >>
    /\ faulted' = {i \in Nodes : d[i].fault = 0}

\* loop(): simulator.update() before the update interval has elapsed
SimUpdateSkip ==
    /\ pc = "sim"
    /\ UNCHANGED << settled, onAir, thermometer >>
    /\ ~UpdateIsDue(clock, _lastGlobalUpdate)
    /\ pc' = "tx"
    /\ UNCHANGED << clock, nodes, _lastGlobalUpdate, _initialized,
                    _packetsSent, _packetsFailed, txI, currentTime, air,
                    failedAt, busyCount, faulted >>

\* loop(): AgriNodeLoRaTx::update runs its for loop one iteration per step,
\* index txI; iteration 0 first samples millis() into currentTime.
TxNow == IF txI = 0 THEN clock ELSE currentTime

\* the delay() calls of an iteration that finds the channel busy at its
\* last sample: delay(10) after each free sample, the backoff of
\* _isChannelFree, then delay(10) and the random wait of update(); b holds
\* the two draws
BusyPause(s, b) ==
    (Len(ChannelReads(s)) - 1) * Ms(10) + Ms(b.cad) + Ms(10) + Ms(b.wait)

\* the delay() calls of _isChannelFree when all three samples are free
FreePause == 3 * Ms(10)

\* the delay() calls after LoRa.endPacket(): the LED of _transmitNode, on
\* success _blinkLED(1), and the delay(100) between nodes
SendPause(payload, success) ==
    IF payload = << >> THEN Ms(100)
    ELSE IF success THEN Ms(50) + (Ms(50) + Ms(50)) + Ms(100)
    ELSE Ms(100) + Ms(100)

\* txElapsed after an iteration that leaves the call e after its start
ElapsedAfter(e) == IF txI + 1 = NUM_SIMULATED_NODES THEN 0 ELSE e

\* what every iteration does: advance the loop, leave update() after the
\* last index
TxAdvance ==
    /\ pc = "tx"
    /\ UNCHANGED << settled, thermometer >>
    /\ _initialized
    /\ currentTime' = TxNow
    /\ txI' = (txI + 1) % NUM_SIMULATED_NODES
    /\ pc' = IF txI + 1 = NUM_SIMULATED_NODES THEN "delay" ELSE "tx"
    /\ UNCHANGED << clock, _lastGlobalUpdate, _initialized, faulted >>

\* AgriNodeLoRaTx::update on a transmitter that is not initialized: the
\* early return
TxUninitialized ==
    /\ pc = "tx"
    /\ ~_initialized
    /\ pc' = "delay"
    /\ UNCHANGED << clock, nodes, _lastGlobalUpdate, _initialized,
                    _packetsSent, _packetsFailed, txI, currentTime, air,
                    failedAt, busyCount, faulted, timestampEnabled,
                    ntpSynced, txElapsed, lastSendAt, endPackets,
                    lastSensorRead, sheets >>

\* iteration for a node that is not due
TxNotDue ==
    /\ TxAdvance
    /\ ~IsDue(nodes[txI], txI, TxNow)
    /\ air' = [node |-> txI, at |-> TxNow, interval |-> txInterval(txI),
               samples |-> << >>, payload |-> << >>, rssi |-> 0,
               result |-> "notdue"]
    /\ txElapsed' = ElapsedAfter(txElapsed)
    /\ UNCHANGED << nodes, _packetsSent, _packetsFailed, failedAt,
                    busyCount, lastSendAt, endPackets >>

\* a busy skip that leaves the loop (break for continue)
TxBusyWith_breaks(s, b) ==
    /\ pc = "tx"
    /\ UNCHANGED << settled, thermometer >>
    /\ _initialized
    /\ currentTime' = TxNow
    /\ txI' = 0
    /\ pc' = "delay"
    /\ UNCHANGED << clock, _lastGlobalUpdate, _initialized, faulted >>
    /\ IsDue(nodes[txI], txI, TxNow)
    /\ ~_isChannelFree(s)
    /\ busyCount < MaxBusy
    /\ busyCount' = busyCount + 1
    /\ air' = [node |-> txI, at |-> TxNow, interval |-> txInterval(txI),
               samples |-> ChannelReads(s), payload |-> << >>, rssi |-> 0,
               result |-> "busy"]
    /\ txElapsed' = 0
    /\ UNCHANGED << nodes, _packetsSent, _packetsFailed, failedAt,
                    lastSendAt, endPackets >>

\* a busy skip that records the node as transmitted
TxBusyWith_marksSent(s, b) ==
    /\ TxAdvance
    /\ IsDue(nodes[txI], txI, TxNow)
    /\ ~_isChannelFree(s)
    /\ busyCount < MaxBusy
    /\ busyCount' = busyCount + 1
    /\ air' = [node |-> txI, at |-> TxNow, interval |-> txInterval(txI),
               samples |-> ChannelReads(s), payload |-> << >>, rssi |-> 0,
               result |-> "busy"]
    /\ txElapsed' = ElapsedAfter(txElapsed + BusyPause(s, b))
    /\ nodes' = [nodes EXCEPT ![txI].lastTxTime = TxNow]
    /\ UNCHANGED << _packetsSent, _packetsFailed, failedAt, lastSendAt,
                    endPackets >>

\* iteration for a due node when _isChannelFree() is false: continue.
\* s are the answers LoRa.rssi() would give, b the draws of the backoffs
TxBusyWith(s, b) ==
    /\ TxAdvance
    /\ IsDue(nodes[txI], txI, TxNow)
    /\ ~_isChannelFree(s)
    /\ busyCount < MaxBusy
    /\ busyCount' = busyCount + 1
    /\ air' = [node |-> txI, at |-> TxNow, interval |-> txInterval(txI),
               samples |-> ChannelReads(s), payload |-> << >>, rssi |-> 0,
               result |-> "busy"]
    /\ txElapsed' = ElapsedAfter(txElapsed + BusyPause(s, b))
    /\ UNCHANGED << nodes, _packetsSent, _packetsFailed, failedAt,
                    lastSendAt, endPackets >>

\* iteration for a due node on a free channel: _transmitNode and the
\* bookkeeping.  success is the result of LoRa.endPacket(), prssi the value
\* of LoRa.packetRssi(), simRssi the draw of random(-95, -50)
TxSendWith(s, success, prssi, simRssi) ==
    LET i == txI
        now == TxNow
        node == nodes[i]
        payload == _createBinaryPayload(node, simRssi)
        sent == _transmitNode(node, payload, success, prssi)
    IN  /\ TxAdvance
        /\ IsDue(node, i, now)
        /\ _isChannelFree(s)
        /\ lastSendAt' = IF payload = << >> THEN lastSendAt
                         ELSE (now + txElapsed + FreePause) % Wrap
        /\ endPackets' = IF payload = << >> THEN endPackets
                         ELSE endPackets + 1
        /\ txElapsed' = ElapsedAfter(txElapsed + FreePause
                                        + SendPause(payload, success))
        /\ IF TransmitResult(payload, success)
           THEN /\ nodes' = [nodes EXCEPT ![i] = MarkTransmitted(sent, now)]
                /\ _packetsSent' = Inc32(_packetsSent)
                /\ air' = [node |-> i, at |-> now,
                           interval |-> txInterval(i),
                           samples |-> ChannelReads(s),
                           payload |-> payload, rssi |-> prssi,
                           result |-> "ok"]
                /\ failedAt' = [failedAt EXCEPT ![i] = -1]
                /\ UNCHANGED << _packetsFailed, busyCount >>
           ELSE /\ _packetsFailed < MaxFailed
                /\ nodes' = [nodes EXCEPT ![i] = sent]
                /\ _packetsFailed' = Inc32(_packetsFailed)
                /\ air' = [node |-> i, at |-> now,
                           interval |-> txInterval(i),
                           samples |-> ChannelReads(s),
                           payload |-> payload, rssi |-> 0,
                           result |-> "fail"]
                /\ failedAt' = [failedAt EXCEPT ![i] = now]
                /\ UNCHANGED << _packetsSent, busyCount >>

\* DEVICE_DISCONNECTED_C of the sensor's driver, -127 degrees
DEVICE_DISCONNECTED_C == -127 * 100

\* the value readTemperatureDS18B20 returns when getTempCByIndex(0) is t
readTemperatureDS18B20(t) ==
    ~(t = DEVICE_DISCONNECTED_C \/ t < -5000 \/ t > 12500)

\* a sensor cycle that hands every reading to the data sink
SensorCycle_sendsInvalid(r) ==
    IF Sub32(clock, lastSensorRead) >= Ms(DS18B20_READ_INTERVAL_MS)
    THEN /\ lastSensorRead' = clock
         /\ sheets' = [reading |-> r.t, sent |-> r.online]
    ELSE UNCHANGED thermometer

\* loop(): the periodic read of the DS18B20, now being the millis() sampled
\* at the start of loop().  r.t is what getTempCByIndex(0) returns, r.online
\* whether sendToGoogleSheets finds the network up and issues its request
SensorCycle(r) ==
    IF Sub32(clock, lastSensorRead) >= Ms(DS18B20_READ_INTERVAL_MS)
    THEN /\ lastSensorRead' = clock
         /\ sheets' = [reading |-> r.t,
                       sent |-> readTemperatureDS18B20(r.t) /\ r.online]
    ELSE UNCHANGED thermometer

\* a loop() that calls the scheduler before the simulator: the next
\* iteration starts at loraTx.update()
LoopRest_txFirst(step, r) ==
    /\ pc = "delay"
    /\ UNCHANGED << settled, onAir >>
    /\ SensorCycle(r)
    /\ clock' = (clock + Ms(step)) % Wrap
    /\ pc' = "tx"
    /\ UNCHANGED << nodes, _lastGlobalUpdate, _initialized, _packetsSent,
                    _packetsFailed, txI, currentTime, air, failedAt,
                    busyCount, faulted >>

\* loop(): the rest of the iteration after the two update() calls; step is
\* the time until the next iteration, r the sensor's answers
LoopRest(step, r) ==
    /\ pc = "delay"
    /\ UNCHANGED << settled, onAir >>
    /\ SensorCycle(r)
    /\ clock' = (clock + Ms(step)) % Wrap
    /\ pc' = "sim"
    /\ UNCHANGED << nodes, _lastGlobalUpdate, _initialized, _packetsSent,
                    _packetsFailed, txI, currentTime, air, failedAt,
                    busyCount, faulted >>

\* loop(): the rest of the iteration with a calm sensor; limit is the uptime
\* at which the model stops
LoopDelayWith(step, limit) ==
    /\ clock + Ms(step) <= Ms(limit)
    /\ LoopRest(step, CalmRead)

\* ------------------------------------------------------------------------
\* Specification of the firmware: calm simulator draws, free radio answers
\* ------------------------------------------------------------------------
SimBegin == SimBeginWith([i \in Nodes |-> CalmBegin])

SimUpdate == SimUpdateWith([i \in Nodes |-> CalmDraw])

TxBusy ==
    \E s \in [1..3 -> RssiSamples], b \in BackoffDraws : TxBusyWith(s, b)

TxSend ==
    \E s \in [1..3 -> RssiSamples], success \in BOOLEAN,
       prssi \in PacketRssiVals, simRssi \in SimRssiVals :
        TxSendWith(s, success, prssi, simRssi)

LoopDelay == \E step \in TickSteps : LoopDelayWith(step, MaxTime)

Next ==
    \/ SimBegin
    \/ LoRaBegin
    \/ FatalLoop
    \/ SimUpdate
    \/ SimUpdateSkip
    \/ TxNotDue
    \/ TxBusy
    \/ TxSend
    \/ LoopDelay

Spec == Init /\ [][Next]_vars

\* ------------------------------------------------------------------------
\* Specification of the firmware under fair ticking: loop() is called again
\* and again and every call it makes returns, so a step that can be taken is
\* taken, one loop() iteration every MinTick.  The channel is busy at most
\* MaxBusy times (on the first sample) and the radio fails at most MaxFailed
\* sends, then the channel is clear and the radio succeeds.
\* ------------------------------------------------------------------------
\* the shortest time from one loop() iteration to the next
MinTick == CHOOSE x \in TickSteps : \A y \in TickSteps : x <= y

TxBusyFirst ==
    TxBusyWith([k \in 1..3 |-> -89], [cad |-> 50, wait |-> 100])

TxSendEither ==
    \E success \in BOOLEAN :
        TxSendWith([k \in 1..3 |-> -90], success, -157, -95)

LoopDelayShort == LoopDelayWith(MinTick, MaxTime)

NextLive ==
    \/ SimBegin
    \/ LoRaBegin
    \/ FatalLoop
    \/ SimUpdate
    \/ SimUpdateSkip
    \/ TxNotDue
    \/ TxBusyFirst
    \/ TxSendEither
    \/ LoopDelayShort

SpecLive == Init /\ [][NextLive]_vars /\ WF_vars(NextLive)

\* ------------------------------------------------------------------------
\* Specification of the simulator's long run: free simulator draws, a quiet
\* radio that always sends, one loop() iteration per update interval
\* ------------------------------------------------------------------------
\* draws of random(-100, 100): the extremes
NoiseDraws == {-100, 99}
\* draws of random(-100, 100) during updates
UpdateNoise == {99}
\* draws of random(30, 50) and random(5, 15): the extremes
MoistDraws == {[irr |-> 30, evap |-> 5], [irr |-> 49, evap |-> 14]}
\* the sets of nodes that draw random(0, 1000) == 0 in one update
FaultSets == {{}, {3}}

SimBeginNoisy ==
    \E n \in NoiseDraws :
        SimBeginWith([i \in Nodes |-> [m |-> n, t |-> n, h |-> n]])

SimUpdateNoisy ==
    \E n \in UpdateNoise, mo \in MoistDraws, F \in FaultSets :
        SimUpdateWith([i \in Nodes |->
               [nT |-> n, nH |-> n, irr |-> mo.irr, evap |-> mo.evap,
                fault |-> IF i \in F THEN 0 ELSE 1]])

TxSendQuiet == TxSendWith([k \in 1..3 |-> -100], TRUE, -157, -95)

LoopDelaySim == LoopDelayWith(NODE_UPDATE_INTERVAL_MS, MaxTimeSim)

NextSim ==
    \/ SimBeginNoisy
    \/ LoRaBegin
    \/ FatalLoop
    \/ SimUpdateNoisy
    \/ SimUpdateSkip
    \/ TxNotDue
    \/ TxSendQuiet
    \/ LoopDelaySim

SpecSim == Init /\ [][NextSim]_vars

\* ------------------------------------------------------------------------
\* Specification of the encoder alone: _createBinaryPayload applied to one
\* node record drawn from bounded sets, in the build with and in the build
\* without the timestamp
\* ------------------------------------------------------------------------
\* temperatures drawn, in hundredths: from -50.00 to 163.80 in steps of
\* CodecTempStep hundredths
CodecTempMax == 16380
CodecTempStep == 7
CodecTemps ==
    {t \in -5000 .. CodecTempMax : (t + 5000) % CodecTempStep = 0}
    \cup {CodecTempMax}
\* soil moistures and humidities drawn, in hundredths, in and out of 0..100
CodecPercents == {-100, -1, 0, 4270, 6010, 9999, 10000, 10001, 25600}
\* node ids and collection timestamps drawn
CodecIds == {0, 255, 256, 1000, 32768, 65535}
CodecTimestamps == {0, 255, 65536, 1762300800, 2147483647}

\* the node of the worked example: id 1000, soil 42.7, 25.3 degrees,
\* humidity 60.1, irrigation off
ScenarioNode ==
    [ZeroNode EXCEPT !.nodeId = 1000, !.soilMoisture = 4270,
                     !.ambientTemp = 2530, !.humidity = 6010,
                     !.irrigationStatus = IRRIGATION_OFF]

CodecNodes ==
    {[ScenarioNode EXCEPT !.ambientTemp = t] : t \in CodecTemps}
    \cup
    {[ScenarioNode EXCEPT !.nodeId = id, !.soilMoisture = m, !.humidity = h,
                          !.irrigationStatus = st, !.dataTimestamp = ts] :
        id \in CodecIds, m \in CodecPercents, h \in CodecPercents,
        st \in IRRIGATION_OFF .. IRRIGATION_ERROR, ts \in CodecTimestamps}

InitCodec ==
    /\ clock = 0
    /\ pc = "encode"
    /\ \E node \in CodecNodes :
          nodes = [i \in Nodes |-> IF i = 0 THEN node ELSE ZeroNode]
    /\ _lastGlobalUpdate = 0
    /\ _initialized = FALSE
    /\ _packetsSent = 0
    /\ _packetsFailed = 0
    /\ txI = 0
    /\ currentTime = 0
    /\ air = NoAir
    /\ failedAt = [i \in Nodes |-> -1]
    /\ busyCount = 0
    /\ faulted = {}
    /\ timestampEnabled \in BOOLEAN
    /\ ntpSynced = FALSE
    /\ txElapsed = 0
    /\ lastSendAt = -1
    /\ endPackets = 0
    /\ lastSensorRead = 0
    /\ sheets = NoReading

\* one call of _createBinaryPayload on node 0
Encode ==
    /\ pc = "encode"
    /\ \E simRssi \in SimRssiVals :
          air' = [NoAir EXCEPT !.node = 0,
                               !.payload =
                                   _createBinaryPayload(nodes[0], simRssi),
                               !.result = "encoded"]
    /\ pc' = "encoded"
    /\ UNCHANGED << clock, nodes, _lastGlobalUpdate, _initialized,
                    _packetsSent, _packetsFailed, txI, currentTime, failedAt,
                    busyCount, faulted, timestampEnabled, ntpSynced,
                    txElapsed, lastSendAt, endPackets, lastSensorRead,
                    sheets >>

NextCodec == Encode

SpecCodec == InitCodec /\ [][NextCodec]_vars

\* ------------------------------------------------------------------------
\* Specification of the two objects with and without a working radio: the
\* firmware's setup() and loop() with a quiet radio, and a client that runs
\* the loop on the objects as constructed, begin() never called
\* ------------------------------------------------------------------------
InitUnbegun ==
    /\ clock = Ms(BootTime)
    /\ pc \in {"sim_begin", "sim"}
    /\ nodes = [i \in Nodes |-> ZeroNode]
    /\ _lastGlobalUpdate = 0
    /\ _initialized = FALSE
    /\ _packetsSent = 0
    /\ _packetsFailed = 0
    /\ txI = 0
    /\ currentTime = 0
    /\ air = NoAir
    /\ failedAt = [i \in Nodes |-> -1]
    /\ busyCount = 0
    /\ faulted = {}
    /\ timestampEnabled = ENABLE_NODE_TIMESTAMP
    /\ ntpSynced \in BOOLEAN
    /\ txElapsed = 0
    /\ lastSendAt = -1
    /\ endPackets = 0
    /\ lastSensorRead = 0
    /\ sheets = NoReading

NextApi ==
    \/ SimBegin
    \/ LoRaBegin
    \/ FatalLoop
    \/ SimUpdate
    \/ SimUpdateSkip
    \/ TxUninitialized
    \/ TxNotDue
    \/ TxSendQuiet
    \/ LoopDelay

SpecApi == InitUnbegun /\ [][NextApi]_vars

\* ------------------------------------------------------------------------
\* Specification of the firmware with its temperature sensor: calm simulator,
\* quiet radio, loop() iterations shorter than the read interval, and a
\* DS18B20 that may be disconnected or out of range
\* ------------------------------------------------------------------------
\* time from one loop() iteration to the next
SensorTicks == {5000, 10000}
\* values of getTempCByIndex(0), in hundredths: the driver's error value,
\* the limits of the accepted range and their neighbours
SensorReadings == {DEVICE_DISCONNECTED_C, -5001, -5000, 2150, 12500, 12501}

LoopDelaySensor ==
    \E step \in SensorTicks, t \in SensorReadings, online \in BOOLEAN :
        /\ clock + Ms(step) <= Ms(MaxTimeSensor)
        /\ LoopRest(step, [t |-> t, online |-> online])

NextSensor ==
    \/ SimBegin
    \/ LoRaBegin
    \/ FatalLoop
    \/ SimUpdate
    \/ SimUpdateSkip
    \/ TxNotDue
    \/ TxSendQuiet
    \/ LoopDelaySensor

SpecSensor == Init /\ [][NextSensor]_vars

\* ------------------------------------------------------------------------
\* Specification of the firmware after seven weeks of uptime: loop() is about
\* to run LateLead ms before millis() wraps.  Every node has been sent
\* LateSent times, last in the update() call 60 s ago; the wall clock was
\* never synchronized.  The radio is as under fair ticking.
\* ------------------------------------------------------------------------
\* millis() at the start of the run
LateStart == Wrap - Ms(LateLead)
\* successful sends of every node so far: the next one wraps the uint16_t
LateSent == U16 - 1

InitLate ==
    /\ clock = LateStart
    /\ pc = "sim"
    /\ nodes = [i \in Nodes |->
                  [InitialNode(i, CalmBegin, Ms(BootTime)) EXCEPT
                      !.sequenceNumber = LateSent,
                      !.txCount = LateSent,
                      !.lastTxTime = LateStart - Ms(TX_INTERVAL_BASE_MS),
                      !.lastUpdateTime =
                          LateStart - Ms(NODE_UPDATE_INTERVAL_MS),
                      !.lastRssi = -157]]
    /\ _lastGlobalUpdate = LateStart - Ms(NODE_UPDATE_INTERVAL_MS)
    /\ _initialized = TRUE
    /\ _packetsSent = NUM_SIMULATED_NODES * LateSent
    /\ _packetsFailed = 0
    /\ txI = 0
    /\ currentTime = LateStart - Ms(MinTick)
    /\ air = [node |-> NUM_SIMULATED_NODES - 1,
              at |-> LateStart - Ms(MinTick),
              interval |-> txInterval(NUM_SIMULATED_NODES - 1),
              samples |-> << >>, payload |-> << >>, rssi |-> 0,
              result |-> "notdue"]
    /\ failedAt = [i \in Nodes |-> -1]
    /\ busyCount = 0
    /\ faulted = {}
    /\ timestampEnabled = ENABLE_NODE_TIMESTAMP
    /\ ntpSynced = FALSE
    /\ txElapsed = 0
    /\ endPackets = NUM_SIMULATED_NODES * LateSent
    /\ lastSendAt = LateStart - Ms(TX_INTERVAL_BASE_MS)
                    + (NUM_SIMULATED_NODES - 1)
                          * (FreePause + SendPause(<<0>>, TRUE))
                    + FreePause
    /\ lastSensorRead = LateStart - Ms(MinTick)
    /\ sheets = [reading |-> CalmRead.t, sent |-> CalmRead.online]

\* loop(): the rest of the iteration, until the run has covered MaxTimeLate
LoopDelayLate ==
    \E step \in TickSteps :
        /\ Sub32(clock, LateStart) + Ms(step) <= Ms(MaxTimeLate)
        /\ LoopRest(step, CalmRead)

NextLate ==
    \/ SimUpdate
    \/ SimUpdateSkip
    \/ TxNotDue
    \/ TxBusyFirst
    \/ TxSendEither
    \/ LoopDelayLate

SpecLate == InitLate /\ [][NextLate]_vars

\* ------------------------------------------------------------------------
\* Specification of the simulator at midday: loop() runs after twelve hours
\* of uptime, when the daily temperature variation is at its maximum.  The
\* simulator's draws are free, the radio is quiet and always sends; the last
\* effective update was 20 s ago and every node was last sent 10 s ago.
\* ------------------------------------------------------------------------
\* millis() at the start of the run
NoonStart == Ms(12 * 3600 * 1000)

InitNoon ==
    /\ clock = NoonStart
    /\ pc = "sim"
    /\ timestampEnabled = ENABLE_NODE_TIMESTAMP
    /\ ntpSynced = FALSE
    /\ \E n \in NoiseDraws :
          nodes = [i \in Nodes |->
                     [InitialNode(i, [m |-> n, t |-> n, h |-> n],
                                  Ms(BootTime)) EXCEPT
                         !.sequenceNumber = NoonSent,
                         !.txCount = NoonSent,
                         !.lastTxTime = NoonStart - Ms(10000),
                         !.lastUpdateTime = NoonStart - Ms(20000),
                         !.lastRssi = -157]]
    /\ _lastGlobalUpdate = NoonStart - Ms(20000)
    /\ _initialized = TRUE
    /\ _packetsSent = NUM_SIMULATED_NODES * NoonSent
    /\ _packetsFailed = 0
    /\ txI = 0
    /\ currentTime = NoonStart - Ms(10000)
    /\ air = [node |-> NUM_SIMULATED_NODES - 1,
              at |-> NoonStart - Ms(10000),
              interval |-> txInterval(NUM_SIMULATED_NODES - 1),
              samples |-> <<-100, -100, -100>>,
              payload |-> _createBinaryPayload(
                              [InitialNode(NUM_SIMULATED_NODES - 1,
                                           CalmBegin, Ms(BootTime))
                               EXCEPT !.sequenceNumber = NoonSent - 1],
                              -95),
              rssi |-> -157,
              result |-> "ok"]
    /\ failedAt = [i \in Nodes |-> -1]
    /\ busyCount = 0
    /\ faulted = {}
    /\ txElapsed = 0
    /\ endPackets = NUM_SIMULATED_NODES * NoonSent
    /\ lastSendAt = NoonStart - Ms(10000)
                    + (NUM_SIMULATED_NODES - 1)
                          * (FreePause + SendPause(<<0>>, TRUE))
                    + FreePause
    /\ lastSensorRead = NoonStart - Ms(10000)
    /\ sheets = [reading |-> CalmRead.t, sent |-> CalmRead.online]

\* loop(): the rest of the iteration, one update interval long, until the
\* run has covered MaxTimeNoon
LoopDelayNoon ==
    /\ Sub32(clock, NoonStart) + Ms(NODE_UPDATE_INTERVAL_MS)
           <= Ms(MaxTimeNoon)
    /\ LoopRest(NODE_UPDATE_INTERVAL_MS, CalmRead)

NextNoon ==
    \/ SimUpdateNoisy
    \/ SimUpdateSkip
    \/ TxNotDue
    \/ TxSendQuiet
    \/ LoopDelayNoon

SpecNoon == InitNoon /\ [][NextNoon]_vars

\* ------------------------------------------------------------------------
\* Specification of the simulator's irrigation cycle under fair ticking: the
\* firmware from boot with calm seeds, the slowest moisture steps
\* (random(5, 15) draws 5, random(30, 50) draws 30), no sensor noise during
\* updates, the random fault free, a quiet radio that always sends, one loop() iteration per
\* update interval; loop() keeps being called
\* ------------------------------------------------------------------------
\* draws of one update pass with the slowest moisture steps
SlowDraw == [nT |-> 0, nH |-> 0, irr |-> 30, evap |-> 5]

SimUpdateSlow ==
    \E F \in FaultSets :
        SimUpdateWith([i \in Nodes |->
               [nT |-> SlowDraw.nT, nH |-> SlowDraw.nH, irr |-> SlowDraw.irr,
                evap |-> SlowDraw.evap,
                fault |-> IF i \in F THEN 0 ELSE 1]])

LoopDelayDry == LoopDelayWith(NODE_UPDATE_INTERVAL_MS, MaxTimeDry)

NextDry ==
    \/ SimBegin
    \/ LoRaBegin
    \/ FatalLoop
    \/ SimUpdateSlow
    \/ SimUpdateSkip
    \/ TxNotDue
    \/ TxSendQuiet
    \/ LoopDelayDry

SpecDry == Init /\ [][NextDry]_vars /\ WF_vars(NextDry)

\* ------------------------------------------------------------------------
\* Properties
\* ------------------------------------------------------------------------
\* the interval of node index i as the design states it: max(B + i*(J/N), F)
DesignInterval(i) ==
    LET t == TX_INTERVAL_BASE_MS + i * (TX_JITTER_MS \div NUM_SIMULATED_NODES)
    IN  IF t > LORA_MIN_TX_INTERVAL_MS THEN t ELSE LORA_MIN_TX_INTERVAL_MS

\* simulator.begin() has run
Begun == pc # "sim_begin"

\* this step is an effective simulator.update()
EffectiveUpdate == pc = "sim" /\ _lastGlobalUpdate' # _lastGlobalUpdate

\* this step is an iteration of the loop of AgriNodeLoRaTx::update
TxStep == pc = "tx" /\ air' # air

\* C1: after begin() and after every update(), in every irrigation state,
\* each node's soil moisture, temperature and humidity are within their
\* configured [min, max].
C1_SensorsInRange ==
    Begun =>
        \A i \in Nodes :
            /\ nodes[i].soilMoisture >= 1500 /\ nodes[i].soilMoisture <= 8500
            /\ nodes[i].ambientTemp >= 1000 /\ nodes[i].ambientTemp <= 4500
            /\ nodes[i].humidity >= 3000 /\ nodes[i].humidity <= 9000

\* a node irrigating after an update that clamped its humidity at the maximum
C1_Witness ==
    \E i \in Nodes :
        /\ nodes[i].irrigationStatus = IRRIGATION_ON
        /\ nodes[i].humidity = 9000
        /\ nodes[i].lastUpdateTime = _lastGlobalUpdate
        /\ pc = "tx"

\* C2: in an iteration of AgriNodeLoRaTx::update a node's sequenceNumber
\* grows by exactly 1 when its send succeeded and is unchanged otherwise
\* (failed send, busy skip, node not due, any other node).
C2_SequencePerSuccess ==
    [][TxStep =>
        \A i \in Nodes :
            nodes'[i].sequenceNumber =
                IF i = air'.node /\ air'.result = "ok"
                THEN (nodes[i].sequenceNumber + 1) % U16
                ELSE nodes[i].sequenceNumber]_vars

\* a node sent for the second time after the radio failed and skipped
C2_Witness ==
    /\ air.result = "ok"
    /\ nodes[air.node].sequenceNumber = 2
    /\ _packetsFailed > 0
    /\ busyCount > 0

\* C3: after a failed send of a node, the node's next attempt (channel check
\* or send) comes no earlier than LORA_MIN_TX_INTERVAL_MS after the failure.
C3_NoEarlyRetry ==
    [][(TxStep /\ failedAt[txI] # -1 /\ air'.result \in {"busy", "ok", "fail"})
        => Sub32(air'.at, failedAt[txI]) >= Ms(LORA_MIN_TX_INTERVAL_MS)]_vars

\* C4: a failed send adds exactly 1 to _packetsFailed and leaves the node's
\* sequenceNumber, txCount, lastTxTime, lastRssi and _packetsSent unchanged.
C4_FailureBookkeeping ==
    [][(TxStep /\ air'.result = "fail") =>
        /\ _packetsFailed' = _packetsFailed + 1
        /\ _packetsSent' = _packetsSent
        /\ nodes'[txI].sequenceNumber = nodes[txI].sequenceNumber
        /\ nodes'[txI].txCount = nodes[txI].txCount
        /\ nodes'[txI].lastTxTime = nodes[txI].lastTxTime
        /\ nodes'[txI].lastRssi = nodes[txI].lastRssi]_vars

\* a send that failed for a node that had been sent before
C4_Witness ==
    /\ air.result = "fail"
    /\ air.payload # << >>
    /\ nodes[air.node].txCount = 1
    /\ _packetsFailed = 1

\* C5: a successful send stores the radio's reported signal strength in
\* lastRssi, adds 1 to sequenceNumber, txCount and _packetsSent, and sets
\* lastTxTime to the time sampled at the start of the update() call.
C5_SuccessBookkeeping ==
    [][(TxStep /\ air'.result = "ok") =>
        /\ nodes'[txI].lastRssi = air'.rssi
        /\ nodes'[txI].sequenceNumber = (nodes[txI].sequenceNumber + 1) % U16
        /\ nodes'[txI].txCount = nodes[txI].txCount + 1
        /\ nodes'[txI].lastTxTime = currentTime'
        /\ currentTime' = (IF txI = 0 THEN clock ELSE currentTime)
        /\ _packetsSent' = _packetsSent + 1
        /\ _packetsFailed' = _packetsFailed]_vars

\* the last node of the loop sent with success, the call is over
C5_Witness ==
    /\ air.result = "ok"
    /\ air.node = NUM_SIMULATED_NODES - 1
    /\ pc = "delay"
    /\ nodes[air.node].lastRssi = -157
    /\ nodes[air.node].lastTxTime = currentTime

\* C6: when a sample of the channel check is above the threshold, nothing is
\* handed to the radio for that node and no node field and no counter changes.
C6_BusySkipsUntouched ==
    [][(TxStep /\ \E k \in DOMAIN air'.samples :
                      air'.samples[k] > RSSI_THRESHOLD) =>
        /\ air'.payload = << >>
        /\ air'.result = "busy"
        /\ nodes' = nodes
        /\ _packetsSent' = _packetsSent
        /\ _packetsFailed' = _packetsFailed]_vars

\* a busy skip on the second sample once packets have been sent
C6_Witness ==
    /\ air.result = "busy"
    /\ Len(air.samples) = 2
    /\ _packetsSent > 0

\* C7: the channel check and send happen for node i exactly when
\* now - lastTxTime_i >= interval_i; two successive successful sends of a
\* node are at least interval_i apart and nothing is sent before the uptime
\* reaches interval_i.
C7_DueCheck ==
    [][TxStep =>
        /\ (air'.result # "notdue") <=>
               (Sub32(air'.at, nodes[txI].lastTxTime)
                    >= Ms(DesignInterval(txI)))
        /\ air'.result = "ok" =>
               Sub32(nodes'[txI].lastTxTime, nodes[txI].lastTxTime)
                   >= Ms(DesignInterval(txI))
        /\ air'.result \in {"ok", "fail"} => clock >= Ms(DesignInterval(txI))
      ]_vars

\* a node sent twice, the second time exactly one interval after the first
C7_Witness ==
    /\ air.result = "ok"
    /\ nodes[air.node].txCount = 2
    /\ air.at = Ms(BootTime) + Ms(10) + Ms(100)
                + 2 * Ms(30000) + Ms(DesignInterval(air.node))

\* C8: the interval the scheduler uses for loop index i is
\* max(B + i*(J/N), F), whatever the node state and the draws.
C8_IntervalFormula ==
    air.node \in Nodes => air.interval = DesignInterval(air.node)

\* the last node sent at its own interval
C8_Witness ==
    /\ air.node = 4
    /\ air.result = "ok"
    /\ air.interval = 64000

\* C9 as stated: a node that is OFF and has its soil moisture below the
\* critical threshold in an effective update ends that update ON with
\* needsIrrigation true.
C9_OffToOn ==
    [][EffectiveUpdate =>
        \A i \in Nodes :
            (nodes[i].irrigationStatus = IRRIGATION_OFF
             /\ nodes'[i].soilMoisture < 2500)
            => (nodes'[i].irrigationStatus = IRRIGATION_ON
                /\ nodes'[i].needsIrrigation)]_vars

\* C9 amended: ... ends that update with needsIrrigation true and with
\* irrigation ON, or ERROR when the node drew the random fault in that update.
C9_OffToOnOrError ==
    [][EffectiveUpdate =>
        \A i \in Nodes :
            (nodes[i].irrigationStatus = IRRIGATION_OFF
             /\ nodes'[i].soilMoisture < 2500)
            => (nodes'[i].needsIrrigation
                /\ nodes'[i].irrigationStatus =
                       IF i \in faulted' THEN IRRIGATION_ERROR
                       ELSE IRRIGATION_ON)]_vars

\* a node just switched on by the update that took it below the threshold
C9_Witness ==
    \E i \in Nodes :
        /\ pc = "tx"
        /\ nodes[i].lastUpdateTime = _lastGlobalUpdate
        /\ nodes[i].irrigationStatus = IRRIGATION_ON
        /\ nodes[i].needsIrrigation
        /\ nodes[i].soilMoisture < 2500
        /\ nodes[i].soilMoisture >= 2500 - 140

\* C10 as stated: a node that is ON at the start of an effective update and
\* whose moisture step reaches >= 70 is OFF at the end of that update.
C10_OnToOff ==
    [][EffectiveUpdate =>
        \A i \in Nodes :
            (nodes[i].irrigationStatus = IRRIGATION_ON
             /\ nodes'[i].soilMoisture >= 7000)
            => nodes'[i].irrigationStatus = IRRIGATION_OFF]_vars

\* C10 amended: ... is OFF at the end of that update, or ERROR when the
\* node drew the random fault in that update.
C10_OnToOffOrError ==
    [][EffectiveUpdate =>
        \A i \in Nodes :
            (nodes[i].irrigationStatus = IRRIGATION_ON
             /\ nodes'[i].soilMoisture >= 7000)
            => nodes'[i].irrigationStatus =
                   IF i \in faulted' THEN IRRIGATION_ERROR
                   ELSE IRRIGATION_OFF]_vars

\* node 3 (seeded at 40 +- 10%) switched off by the update that took it to 70
C10_Witness ==
    /\ pc = "tx"
    /\ nodes[3].lastUpdateTime = _lastGlobalUpdate
    /\ nodes[3].irrigationStatus = IRRIGATION_OFF
    /\ nodes[3].soilMoisture >= 7000
    /\ nodes[3].soilMoisture < 7000 + 490

\* C11: a node whose irrigation status is ERROR is still ERROR after every
\* step of the firmware: every simulator update and every iteration of the
\* scheduler's update, whatever the soil moisture and the draws.
C11_ErrorAbsorbing ==
    [][\A i \in Nodes :
          nodes[i].irrigationStatus = IRRIGATION_ERROR
          => nodes'[i].irrigationStatus = IRRIGATION_ERROR]_vars

\* node 3 still in ERROR after an update in which it drew no fault, its soil
\* below the critical threshold, and after the scheduler has sent it
C11_Witness ==
    /\ pc = "tx"
    /\ nodes[3].lastUpdateTime = _lastGlobalUpdate
    /\ nodes[3].irrigationStatus = IRRIGATION_ERROR
    /\ 3 \notin faulted
    /\ nodes[3].soilMoisture < 2500
    /\ nodes[3].txCount >= 1

\* C12: after an effective update in which a node's soil moisture is at or
\* above the critical threshold at the irrigation check, its needsIrrigation
\* flag is false, whatever its irrigation status.
C12_FlagClears ==
    [][EffectiveUpdate =>
        \A i \in Nodes :
            nodes'[i].soilMoisture >= 2500 => ~nodes'[i].needsIrrigation]_vars

\* a node still irrigating (so its flag had been raised) whose flag the
\* latest update cleared, and a node in ERROR above the threshold
C12_Witness ==
    /\ pc = "tx"
    /\ \E i \in Nodes :
          /\ nodes[i].lastUpdateTime = _lastGlobalUpdate
          /\ nodes[i].irrigationStatus = IRRIGATION_ON
          /\ nodes[i].soilMoisture >= 2500
          /\ ~nodes[i].needsIrrigation
    /\ \E j \in Nodes :
          /\ nodes[j].irrigationStatus = IRRIGATION_ERROR
          /\ nodes[j].soilMoisture >= 2500
          /\ ~nodes[j].needsIrrigation

\* the encoder has returned, air.payload holds its bytes
Encoded == pc = "encoded"

\* x / D rounded to the nearest integer (D > 0)
RoundDiv(x, D) == IF 2 * (x % D) >= D THEN (x \div D) + 1 ELSE x \div D

\* the temperature bytes read back as a signed 16-bit big-endian value
TempField ==
    LET v == air.payload[8] * 256 + air.payload[9]
    IN  IF v >= 32768 THEN v - U16 ELSE v

\* C13: for every temperature t in [-50.0, 163.8] the temperature bytes hold
\* round((t + 50.0) * 10), so that decoding them (value / 10 - 50) gives t
\* rounded to one decimal.
C13_TempRoundTrip ==
    (Encoded /\ nodes[0].ambientTemp >= -5000
             /\ nodes[0].ambientTemp <= 16380)
    => LET t == F32(nodes[0].ambientTemp)
       IN  TempField - 500 = RoundDiv(10 * t.m, t.D)

\* C14: the soil-moisture byte and the humidity byte are the integer part of
\* the field clamped to 0..100: always in 0..100, 0 for a negative field,
\* 100 for a field above 100.
C14_PercentBytes ==
    Encoded =>
        \A f \in {<<7, nodes[0].soilMoisture>>, <<10, nodes[0].humidity>>} :
            LET b == air.payload[f[1]]
                v == f[2]
            IN  /\ b \in 0..100
                /\ v < 0 => b = 0
                /\ v > 10000 => b = 100
                /\ (v >= 0 /\ v <= 10000) =>
                       (b * 100 <= v /\ v < (b + 1) * 100)

\* a soil moisture above 100 and a negative humidity, both clamped
C14_Witness ==
    /\ Encoded
    /\ nodes[0].soilMoisture = 10001 /\ air.payload[7] = 100
    /\ nodes[0].humidity = -1 /\ air.payload[10] = 0

\* C15: in the build without the timestamp the node of the worked example
\* (id 1000, soil 42.7, 25.3 degrees, humidity 60.1, irrigation off) encodes
\* to exactly 12 bytes AB CD 02 9A 03 E8 2A 02 F1 3C 00 and the RSSI byte,
\* the temperature bytes holding 753.
C15_ExamplePayload ==
    (Encoded /\ ~timestampEnabled /\ nodes[0] = ScenarioNode)
    => /\ Len(air.payload) = 12
       /\ SubSeq(air.payload, 1, 11) =
              <<171, 205, 2, 154, 3, 232, 42, 2, 241, 60, 0>>

\* C16: every payload is PAYLOAD_HEADER_SIZE + PAYLOAD_NODE_SIZE bytes long,
\* 16 in the build with the timestamp and 12 in the build without, and is
\* never empty.
C16_PayloadLength ==
    Encoded =>
        /\ Len(air.payload) =
               PAYLOAD_HEADER_SIZE + PAYLOAD_NODE_SIZE(timestampEnabled)
        /\ Len(air.payload) = (IF timestampEnabled THEN 16 ELSE 12)
        /\ air.payload # << >>

\* a node with a collection timestamp encoded without it
C16_Witness ==
    /\ Encoded
    /\ ~timestampEnabled
    /\ nodes[0].dataTimestamp = 1762300800
    /\ Len(air.payload) = 12

\* C17: bytes 0..3 are AB CD 02 9A, bytes 4..5 read big-endian are the node
\* id, and in the build with the timestamp bytes 12..15 read big-endian are
\* the collection timestamp.
C17_BigEndian ==
    Encoded =>
        /\ \A k \in DOMAIN air.payload : air.payload[k] \in 0..255
        /\ SubSeq(air.payload, 1, 4) = <<171, 205, 2, 154>>
        /\ air.payload[5] * 256 + air.payload[6] = nodes[0].nodeId
        /\ timestampEnabled =>
               ((air.payload[13] * 256 + air.payload[14]) * 256
                    + air.payload[15]) * 256 + air.payload[16]
               = nodes[0].dataTimestamp

\* an id with the top bit set and a present-day timestamp
C17_Witness ==
    /\ Encoded
    /\ timestampEnabled
    /\ nodes[0].nodeId = 32768 /\ air.payload[5] = 128 /\ air.payload[6] = 0
    /\ nodes[0].dataTimestamp = 1762300800
    /\ air.payload[13] = 105

\* C18: a simulator update called before NODE_UPDATE_INTERVAL_MS has elapsed
\* since _lastGlobalUpdate changes no node, not _lastGlobalUpdate, and draws
\* no fault; otherwise it sets _lastGlobalUpdate to now and updates every
\* node once: each carries the time of the call and its soil moisture has
\* moved by one update's step.
C18_UpdateFrame ==
    [][pc = "sim" =>
        IF Sub32(clock, _lastGlobalUpdate) < Ms(30000)
        THEN /\ nodes' = nodes
             /\ _lastGlobalUpdate' = _lastGlobalUpdate
             /\ faulted' = faulted
        ELSE /\ _lastGlobalUpdate' = clock
             /\ \A i \in Nodes :
                   /\ nodes'[i].lastUpdateTime = clock
                   /\ IF nodes[i].irrigationStatus = IRRIGATION_ON
                      THEN \/ nodes'[i].soilMoisture = 8500
                           \/ nodes'[i].soilMoisture - nodes[i].soilMoisture
                                  \in 300..490
                      ELSE \/ nodes'[i].soilMoisture = 1500
                           \/ nodes[i].soilMoisture - nodes'[i].soilMoisture
                                  \in 50..210]_vars

\* the second call after an effective update: skipped, the nodes still as
\* that update left them
C18_Witness ==
    /\ pc = "tx"
    /\ _lastGlobalUpdate > Ms(BootTime)
    /\ Sub32(clock, _lastGlobalUpdate) = Ms(20000)
    /\ \A i \in Nodes :
          /\ nodes[i].lastUpdateTime = _lastGlobalUpdate
          /\ nodes[i].soilMoisture < baseMoistures[i + 1]

\* the Unix time in seconds at uptime t (in clock units); 0 while the wall
\* clock is not synchronized
WallClock(t) ==
    IF ntpSynced THEN BootEpoch + ((t * MsPerUnit) \div 1000) ELSE 0

\* bytes 12..15 of a payload hold the 32-bit number ts, high byte first
\* (compared in two 16-bit halves)
CarriesTimestamp(payload, ts) ==
    /\ payload[13] * 256 + payload[14] = ts \div 65536
    /\ payload[15] * 256 + payload[16] = ts % 65536

C20_NoRadioNoTick ==
    [][/\ (pc = "lora_begin" /\ ~_initialized') => pc' = "halt"
       /\ pc = "halt" =>
              /\ pc' = "halt"
              /\ ~_initialized'
              /\ nodes' = nodes
              /\ _lastGlobalUpdate' = _lastGlobalUpdate
              /\ air' = air
              /\ _packetsSent' = 0 /\ _packetsFailed' = 0
       /\ (pc = "tx" /\ ~_initialized) =>
              /\ ~_initialized'
              /\ nodes' = nodes
              /\ air' = air
              /\ _packetsSent' = _packetsSent
              /\ _packetsFailed' = _packetsFailed]_vars

\* the failure loop still turning when the first node would have been due,
\* nothing updated and nothing sent since begin()
C20_Witness ==
    /\ pc = "halt"
    /\ ~_initialized
    /\ clock >= Ms(TX_INTERVAL_BASE_MS + NODE_UPDATE_INTERVAL_MS)
    /\ \A i \in Nodes :
          /\ nodes[i].nodeId = 1000 + i
          /\ nodes[i].lastUpdateTime = Ms(BootTime)
          /\ nodes[i].txCount = 0
    /\ air = NoAir

\* this step is an iteration that hands a payload to the radio
SendStep == TxStep /\ air'.result \in {"ok", "fail"}

\* C21: any two radio transmissions of the device, of the same node or of
\* different nodes, are at least LORA_MIN_TX_INTERVAL_MS apart: a payload is
\* handed to the radio no earlier than 14 s after the previous one.
C21_DutyCycleFloor ==
    [][(SendStep /\ lastSendAt # -1) =>
        Sub32(lastSendAt', lastSendAt) >= Ms(LORA_MIN_TX_INTERVAL_MS)]_vars

\* the longest time from one loop() iteration to the next
MaxTick == CHOOSE x \in TickSteps : \A y \in TickSteps : y <= x

\* the busy answers and failures the radio may still give
Obstructions == (MaxBusy - busyCount) + (MaxFailed - _packetsFailed)

\* update() is about to process node i, which is due, and the uptime the
\* model covers leaves room for one tick per remaining obstruction
DueInTime(i) ==
    /\ pc = "tx" /\ _initialized /\ txI = i
    /\ IsDue(nodes[i], i, TxNow)
    /\ TxNow + Obstructions * Ms(MaxTick) <= Ms(MaxTime)

\* C22: a node that is due and skipped because the channel is busy is still
\* due after the skip and on the next tick; and under fair ticking, the
\* channel eventually clear and the radio eventually succeeding, every node
\* that is due is eventually sent with success, each time it is due.
C22_SkippedNotLost ==
    /\ [][/\ (TxStep /\ air'.result = "busy") =>
                 IsDue(nodes'[txI], txI, currentTime')
          /\ (pc = "delay" /\ pc' = "sim") =>
                 \A i \in Nodes :
                     IsDue(nodes[i], i, currentTime)
                     => IsDue(nodes'[i], i, clock')]_vars
    /\ \A i \in Nodes :
           DueInTime(i) ~> (air.node = i /\ air.result = "ok")

\* node 0 sent for the first time on a tick after the one that skipped it
\* on a busy channel
C22_Witness ==
    /\ air.node = 0
    /\ air.result = "ok"
    /\ nodes[0].txCount = 1
    /\ busyCount = 1
    /\ _packetsFailed = 0

\* C23 as stated: across any step no node's sequenceNumber, txCount or
\* lastTxTime and neither _packetsSent nor _packetsFailed decreases.
C23_Monotonic ==
    [][/\ _packetsSent' >= _packetsSent
       /\ _packetsFailed' >= _packetsFailed
       /\ \A i \in Nodes :
              /\ nodes'[i].sequenceNumber >= nodes[i].sequenceNumber
              /\ nodes'[i].txCount >= nodes[i].txCount
              /\ nodes'[i].lastTxTime >= nodes[i].lastTxTime]_vars

\* C23 amended: across any step no node's txCount and neither _packetsSent
\* nor _packetsFailed decreases; sequenceNumber decreases only by wrapping
\* from 65535 to 0 on a successful send, and lastTxTime only when it is set
\* to a millis() that has wrapped since the node's previous send.
C23_MonotonicUpToWrap ==
    [][/\ _packetsSent' >= _packetsSent
       /\ _packetsFailed' >= _packetsFailed
       /\ \A i \in Nodes :
              /\ nodes'[i].txCount >= nodes[i].txCount
              /\ \/ nodes'[i].sequenceNumber >= nodes[i].sequenceNumber
                 \/ /\ nodes[i].sequenceNumber = 65535
                    /\ nodes'[i].sequenceNumber = 0
                    /\ nodes'[i].txCount = nodes[i].txCount + 1
              /\ \/ nodes'[i].lastTxTime >= nodes[i].lastTxTime
                 \/ /\ nodes'[i].lastTxTime = currentTime'
                    /\ nodes'[i].txCount = nodes[i].txCount + 1
                    /\ Sub32(currentTime', nodes[i].lastTxTime)
                           < Wrap \div 2]_vars

\* a node whose sequence number has wrapped and whose latest send, after the
\* wrap of millis(), carries a smaller lastTxTime than the one before
C23_Witness ==
    \E i \in Nodes :
        /\ air.node = i
        /\ air.result = "ok"
        /\ nodes[i].txCount = 65537
        /\ nodes[i].sequenceNumber = 1
        /\ nodes[i].lastTxTime < Ms(MaxTimeLate)
        /\ _packetsFailed > 0

\* C24: every iteration of the scheduler's loop runs after the simulator
\* update of the same tick has finished: no update is pending, every node
\* carries the time of the latest effective update (none is half updated),
\* and a payload handed to the radio encodes the node's soil moisture,
\* temperature, humidity and irrigation status as that update left them.
C24_SimulatorBeforeScheduler ==
    [][TxStep =>
        /\ ~UpdateIsDue(currentTime', _lastGlobalUpdate)
        /\ \A i \in Nodes : nodes[i].lastUpdateTime = _lastGlobalUpdate
        /\ air'.result \in {"ok", "fail"} =>
               /\ air'.payload[7] = PercentByte(nodes[txI].soilMoisture)
               /\ air'.payload[8] * 256 + air'.payload[9]
                      = tempEncoded(nodes[txI].ambientTemp)
               /\ air'.payload[10] = PercentByte(nodes[txI].humidity)
               /\ air'.payload[11] = nodes[txI].irrigationStatus]_vars

\* a payload that reports the irrigation switched on by the update of the
\* same tick
C24_Witness ==
    /\ air.result = "ok"
    /\ _lastGlobalUpdate = air.at
    /\ nodes[air.node].lastUpdateTime = air.at
    /\ nodes[air.node].needsIrrigation
    /\ nodes[air.node].soilMoisture >= 2500 - 210
    /\ air.payload[11] = IRRIGATION_ON
    /\ air.payload[7] = PercentByte(nodes[air.node].soilMoisture)

\* this step is the rest of a loop() iteration, after the two update() calls
LoopRestStep == pc = "delay" /\ pc' = "sim"

\* the sensor is read in this loop() iteration
ReadDue == Sub32(clock, lastSensorRead) >= Ms(DS18B20_READ_INTERVAL_MS)

\* C25: a reading that is the driver's error value or outside [-50, 125] is
\* not handed to the data sink and the cycle changes no node and no counter
\* of the scheduler; the sensor is read only when the read interval has
\* elapsed since the previous read, valid or not.
C25_InvalidReadingDiscarded ==
    [][LoopRestStep =>
        /\ ReadDue => lastSensorRead' = clock
        /\ ~ReadDue => (lastSensorRead' = lastSensorRead /\ sheets' = sheets)
        /\ (/\ ReadDue
            /\ \/ sheets'.reading = -12700
               \/ sheets'.reading < -5000
               \/ sheets'.reading > 12500) =>
               /\ ~sheets'.sent
               /\ nodes' = nodes
               /\ _lastGlobalUpdate' = _lastGlobalUpdate
               /\ _packetsSent' = _packetsSent
               /\ _packetsFailed' = _packetsFailed]_vars

\* a disconnected sensor's reading discarded once packets have been sent,
\* and the loop() iteration after it, 5 s later, took no reading
C25_Witness ==
    /\ sheets.reading = DEVICE_DISCONNECTED_C
    /\ ~sheets.sent
    /\ Sub32(clock, lastSensorRead) = Ms(15000)
    /\ _packetsSent > 0
    /\ \A i \in Nodes : nodes[i].nodeId = 1000 + i

\* C26: a payload is handed to the radio for a node only after three
\* channel samples taken in that iteration, all <= -90 dBm; a busy skip ends
\* the sampling at its first sample above -90 dBm: at most three samples,
\* the last one above the threshold and none before it.
C26_ListenBeforeTalk ==
    [][TxStep =>
        /\ air'.result \in {"ok", "fail"} =>
               /\ Len(air'.samples) = 3
               /\ \A k \in 1..3 : air'.samples[k] <= -90
        /\ air'.result = "busy" =>
               /\ Len(air'.samples) \in 1..3
               /\ air'.samples[Len(air'.samples)] > -90
               /\ \A k \in 1..(Len(air'.samples) - 1) :
                      air'.samples[k] <= -90
        /\ air'.result = "notdue" => air'.samples = << >>]_vars

\* a node sent after three samples at the threshold itself, on the tick
\* after its skip
C26_Witness ==
    /\ air.result = "ok"
    /\ air.samples = <<-90, -90, -90>>
    /\ busyCount = 1
    /\ nodes[air.node].txCount = 1
    /\ air.at > Ms(BootTime) + Ms(TX_INTERVAL_BASE_MS) + Ms(TX_JITTER_MS)

\* C27: an iteration of the scheduler's loop for node i changes no field of
\* any other node; whatever its outcome (sent, failed, busy skip, not due)
\* the loop goes on to the next index within the same call, with the same
\* sampled time, and a node is checked exactly when it is due itself.
C27_NodesIndependent ==
    [][TxStep =>
        /\ \A j \in Nodes : j # txI => nodes'[j] = nodes[j]
        /\ air'.node = txI
        /\ txI' = (txI + 1) % NUM_SIMULATED_NODES
        /\ pc' = (IF txI + 1 = NUM_SIMULATED_NODES THEN "delay" ELSE "tx")
        /\ txI > 0 => (currentTime' = currentTime /\ air'.at = air.at)
        /\ (air'.result # "notdue")
               <=> IsDue(nodes[txI], txI, currentTime')]_vars

\* node 1 sent in the call that skipped node 0 on a busy channel, node 0
\* still due and unsent
C27_Witness ==
    /\ air.node = 1
    /\ air.result = "ok"
    /\ nodes[1].lastTxTime = air.at
    /\ busyCount = 1
    /\ _packetsFailed = 0
    /\ nodes[0].txCount = 0
    /\ IsDue(nodes[0], 0, air.at)

\* C28: in an effective update a node that is ON gains 3.0 to 5.0 points of
\* soil moisture, clamped to [0, max]; a node that is OFF or ERROR loses 0.5
\* to 1.5 points, one and a half times that when its temperature (as just
\* updated) is above 30, clamped to [min, max]; so the soil moisture never
\* falls while ON and never rises while not ON.
C28_SoilMoistureStep ==
    [][EffectiveUpdate =>
        \A i \in Nodes :
            LET before == nodes[i].soilMoisture
                after == nodes'[i].soilMoisture
                hot == nodes'[i].ambientTemp > 3000
            IN  IF nodes[i].irrigationStatus = IRRIGATION_ON
                THEN /\ \E k \in 30 .. 50 :
                          LET v == before + k * 10
                          IN  after = IF v < 0 THEN 0
                                      ELSE IF v > 8500 THEN 8500 ELSE v
                     /\ after >= before
                ELSE /\ \E k \in 5 .. 15 :
                          LET v == before - (IF hot THEN k * 15 ELSE k * 10)
                          IN  after = IF v < 1500 THEN 1500
                                      ELSE IF v > 8500 THEN 8500 ELSE v
                     /\ after <= before]_vars

\* after an effective update: a node that is ON and has risen back over the
\* critical threshold, and a node above 30 degrees that is not ON and has
\* dried below the lowest moisture begin() can give it
C28_Witness ==
    /\ pc = "tx"
    /\ \E i \in Nodes :
          /\ nodes[i].lastUpdateTime = _lastGlobalUpdate
          /\ nodes[i].irrigationStatus = IRRIGATION_ON
          /\ nodes[i].soilMoisture >= 2500
    /\ \E j \in Nodes :
          /\ nodes[j].lastUpdateTime = _lastGlobalUpdate
          /\ nodes[j].irrigationStatus # IRRIGATION_ON
          /\ nodes[j].ambientTemp > 3000
          /\ nodes[j].soilMoisture
                 < InitialNode(j, [m |-> -100, t |-> 0, h |-> 0],
                               0).soilMoisture

C30_NeverAuto ==
    \A i \in Nodes :
        /\ nodes[i].irrigationStatus \in {0, 1, 3}
        /\ nodes[i].irrigationStatus # 2

\* the three states side by side after updates and sends: node 3 in ERROR,
\* a node irrigating and a node switched off
C30_Witness ==
    /\ nodes[3].irrigationStatus = 3
    /\ \E i \in Nodes : nodes[i].irrigationStatus = 1
    /\ \E j \in Nodes : nodes[j].irrigationStatus = 0
    /\ \A k \in Nodes : nodes[k].txCount > 0

\* C31: in every reachable state, for every node, sequenceNumber equals
\* txCount mod 2^16; the successful send after 65535 yields 0.
C31_SequenceTiedToCount ==
    \A i \in Nodes :
        /\ nodes[i].sequenceNumber = nodes[i].txCount % 65536
        /\ nodes[i].sequenceNumber >= 0
        /\ nodes[i].sequenceNumber <= 65535

\* a node after its 65536th successful send
C31_Witness ==
    \E i \in Nodes :
        /\ nodes[i].txCount = 65536
        /\ nodes[i].sequenceNumber = 0
        /\ air.node = i
        /\ air.result = "ok"

\* the sum of txCount over the nodes of index below k
RECURSIVE TxCountBelow(_)
TxCountBelow(k) ==
    IF k = 0 THEN 0 ELSE TxCountBelow(k - 1) + nodes[k - 1].txCount

\* C32: in every reachable state _packetsSent equals the sum of txCount over
\* all nodes, and _packetsSent + _packetsFailed equals the number of radio
\* sends (LoRa.endPacket calls) update() has issued.
C32_PacketAccounting ==
    /\ _packetsSent = TxCountBelow(5)
    /\ _packetsSent + _packetsFailed = endPackets

\* after a failed send and more than one round of successful ones
C32_Witness ==
    /\ _packetsFailed = 1
    /\ _packetsSent = 6
    /\ endPackets = 7
    /\ nodes[0].txCount = 2
    /\ nodes[4].txCount = 1

\* C33: at the end of every effective simulator update, every node whose
\* irrigation status is ON has a soil moisture below 70.
C33_OnBelowSeventy ==
    [][EffectiveUpdate =>
        \A i \in Nodes :
            nodes'[i].irrigationStatus = 1
            => nodes'[i].soilMoisture < 7000]_vars

\* a node still irrigating after the update that took it to within one
\* step of 70
C33_Witness ==
    \E i \in Nodes :
        /\ pc = "tx"
        /\ nodes[i].lastUpdateTime = _lastGlobalUpdate
        /\ nodes[i].irrigationStatus = 1
        /\ nodes[i].soilMoisture >= 7000 - 300
        /\ nodes[i].soilMoisture < 7000

\* C34: at the end of every effective simulator update, every node whose
\* soil moisture is below the critical threshold (25) is ON or ERROR, never
\* OFF, and every node with needsIrrigation true has its soil moisture below
\* the critical threshold.
C34_CriticalIsServed ==
    [][EffectiveUpdate =>
        \A i \in Nodes :
            /\ nodes'[i].soilMoisture < 2500
                   => /\ nodes'[i].irrigationStatus \in {1, 3}
                      /\ nodes'[i].irrigationStatus # 0
            /\ nodes'[i].needsIrrigation
                   => nodes'[i].soilMoisture < 2500]_vars

\* after an effective update: node 3 below the threshold in ERROR, another
\* node below the threshold irrigating with its flag up
C34_Witness ==
    /\ pc = "tx"
    /\ nodes[3].lastUpdateTime = _lastGlobalUpdate
    /\ nodes[3].irrigationStatus = 3
    /\ nodes[3].soilMoisture < 2500
    /\ \E i \in Nodes :
          /\ nodes[i].irrigationStatus = 1
          /\ nodes[i].needsIrrigation
          /\ nodes[i].soilMoisture < 2500

\* effective updates an OFF node needs at most to fall below the critical
\* threshold, at 0.5 per update
UpdatesToDry(i) == (nodes[i].soilMoisture - 2500) \div 50 + 1

\* node i is OFF in the running firmware with the time left for that many
\* updates and the one pending
OffInTime(i) ==
    /\ _initialized
    /\ nodes[i].irrigationStatus = 0
    /\ nodes[i].soilMoisture >= 2500
    /\ clock + (UpdatesToDry(i) + 1) * Ms(NODE_UPDATE_INTERVAL_MS)
           <= Ms(MaxTimeDry)

\* C35: under fair ticking no node stays OFF for ever.  The minimum 15 of the
\* soil moisture is below the critical threshold 25, each effective update
\* lowers the moisture of a node that is OFF by at least 0.5, and every node
\* that is OFF eventually becomes ON or ERROR.
C35_OffEventuallyServed ==
    /\ _ranges.soilMoisture_min < _ranges.soilMoisture_critical
    /\ [][EffectiveUpdate =>
            \A i \in Nodes :
                nodes[i].irrigationStatus = 0
                => nodes'[i].soilMoisture <= nodes[i].soilMoisture - 50]_vars
    /\ \A i \in Nodes :
           OffInTime(i) ~> (nodes[i].irrigationStatus \in {1, 3})

\* node 0, seeded at 45, switched on by the update that took it below 25,
\* after node 3 went into ERROR
C35_Witness ==
    /\ pc = "tx"
    /\ nodes[0].lastUpdateTime = _lastGlobalUpdate
    /\ nodes[0].irrigationStatus = 1
    /\ nodes[0].needsIrrigation
    /\ nodes[0].soilMoisture < 2500
    /\ nodes[0].soilMoisture >= 2500 - 50
    /\ nodes[3].irrigationStatus = 3

\* effective updates an ON node needs at most to reach 70, at 3.0 per update
UpdatesToWet(i) == (7000 - nodes[i].soilMoisture) \div 300 + 1

\* node i is ON in the running firmware with the time left for that many
\* updates and the one pending
OnInTime(i) ==
    /\ _initialized
    /\ nodes[i].irrigationStatus = 1
    /\ nodes[i].soilMoisture < 7000
    /\ clock + (UpdatesToWet(i) + 1) * Ms(NODE_UPDATE_INTERVAL_MS)
           <= Ms(MaxTimeDry)

\* C36: under fair ticking no node stays ON for ever.  The maximum 85 of the
\* soil moisture is at least 70, each effective update raises the moisture of
\* a node that is ON by at least 3.0, and every node that is ON eventually
\* becomes OFF or ERROR.
C36_OnEventuallyOff ==
    /\ _ranges.soilMoisture_max >= 7000
    /\ [][EffectiveUpdate =>
            \A i \in Nodes :
                nodes[i].irrigationStatus = 1
                => nodes'[i].soilMoisture >= nodes[i].soilMoisture + 300]_vars
    /\ \A i \in Nodes :
           OnInTime(i) ~> (nodes[i].irrigationStatus \in {0, 3})

\* node 3, seeded lowest, switched off by the update that took it to 70
\* after its irrigation
C36_Witness ==
    /\ pc = "tx"
    /\ nodes[3].lastUpdateTime = _lastGlobalUpdate
    /\ nodes[3].irrigationStatus = 0
    /\ nodes[3].soilMoisture >= 7000
    /\ nodes[3].soilMoisture < 7000 + 300
    /\ nodes[0].irrigationStatus = 1

\* C37: an iteration of AgriNodeLoRaTx::update never changes a node's
\* soilMoisture, ambientTemp, humidity, irrigationStatus, needsIrrigation,
\* nodeId or cropType; an effective AgriNodeSimulator::update never changes
\* sequenceNumber, txCount, lastTxTime or lastRssi; and nodeId and cropType
\* never change after begin().
C37_DisjointWrites ==
    [][\A i \in Nodes :
         /\ TxStep =>
               /\ nodes'[i].soilMoisture = nodes[i].soilMoisture
               /\ nodes'[i].ambientTemp = nodes[i].ambientTemp
               /\ nodes'[i].humidity = nodes[i].humidity
               /\ nodes'[i].irrigationStatus = nodes[i].irrigationStatus
               /\ nodes'[i].needsIrrigation = nodes[i].needsIrrigation
               /\ nodes'[i].nodeId = nodes[i].nodeId
               /\ nodes'[i].cropType = nodes[i].cropType
         /\ EffectiveUpdate =>
               /\ nodes'[i].sequenceNumber = nodes[i].sequenceNumber
               /\ nodes'[i].txCount = nodes[i].txCount
               /\ nodes'[i].lastTxTime = nodes[i].lastTxTime
               /\ nodes'[i].lastRssi = nodes[i].lastRssi
         /\ Begun =>
               /\ nodes'[i].nodeId = nodes[i].nodeId
               /\ nodes'[i].cropType = nodes[i].cropType]_vars

\* a node that was sent with its flag up and its irrigation on, and then
\* updated by the simulator with its send record in place
C37_Witness ==
    \E i \in Nodes :
        /\ pc = "tx"
        /\ nodes[i].txCount >= 2
        /\ nodes[i].lastRssi = -157
        /\ nodes[i].lastTxTime > 0
        /\ nodes[i].lastUpdateTime > nodes[i].lastTxTime
        /\ nodes[i].needsIrrigation
        /\ nodes[i].irrigationStatus = 1

\* C38: for every node state reachable from begin() by simulator updates the
\* encoded fields cannot overflow: the temperature value (temp + 50) * 10
\* lies in [600, 950] and fits a non-negative signed 16-bit integer, the
\* soil-moisture byte lies in [15, 85] and the humidity byte in [30, 90], and
\* the encoder's clamp to [0, 100] changes neither percentage.
C38_EncodedRanges ==
    Begun =>
        \A i \in Nodes :
            LET te == tempEncodedAt(nodes[i].ambientTemp)
                soil == nodes[i].soilMoisture
                hum == nodes[i].humidity
            IN  /\ te >= 600 /\ te <= 950
                /\ te >= 0 /\ te <= 32767
                /\ PercentByte(soil) >= 15 /\ PercentByte(soil) <= 85
                /\ PercentByte(hum) >= 30 /\ PercentByte(hum) <= 90
                /\ soil >= 0 /\ soil <= 10000
                /\ hum >= 0 /\ hum <= 10000

\* a node sent with its humidity held at the maximum by the update's clamp
C38_Witness ==
    \E i \in Nodes :
        /\ nodes[i].humidity = 9000
        /\ nodes[i].txCount >= 1
        /\ air.node = i
        /\ air.result = "ok"
        /\ air.payload[10] = 90

\* the real time of a millis() sample of the run that starts LateLead before
\* the wrap, counted from the start of the run: samples from one base
\* interval before the start up to the wrap are large, later ones have
\* wrapped
SinceLateStart(t) ==
    IF t >= LateStart - Ms(TX_INTERVAL_BASE_MS)
    THEN t - LateStart
    ELSE t + (Wrap - LateStart)

\* C39: across the wrap of the 32-bit millisecond counter, a node is checked
\* and sent exactly when interval_i milliseconds have really elapsed since
\* its last transmit, not before, and the simulator's update is effective
\* exactly when the update interval has really elapsed since the last one.
C39_DueAcrossWrap ==
    [][/\ TxStep =>
             ((air'.result # "notdue") <=>
                 (SinceLateStart(currentTime')
                      - SinceLateStart(nodes[txI].lastTxTime)
                  >= Ms(DesignInterval(txI))))
       /\ (pc = "sim" /\ pc' = "tx") =>
             (EffectiveUpdate <=>
                 (SinceLateStart(clock) - SinceLateStart(_lastGlobalUpdate)
                  >= Ms(NODE_UPDATE_INTERVAL_MS)))]_vars

\* a node sent after the wrap, less than one interval into the new count, so
\* that its previous send was before the wrap
C39_Witness ==
    \E i \in Nodes :
        /\ air.node = i
        /\ air.result = "ok"
        /\ air.at < Ms(TX_INTERVAL_BASE_MS)
        /\ nodes[i].lastTxTime = air.at
        /\ nodes[i].txCount >= 65537
        /\ _lastGlobalUpdate < Ms(TX_INTERVAL_BASE_MS)

====
